---- MODULE Spec2Model ----
(***************************************************************************)
(* ratbagd-rs: one device, its actor (actor.rs), the shared DeviceInfo     *)
(* (device.rs), the D-Bus objects published for it (dbus/), and the        *)
(* HID++ 2.0 driver's load_profiles / commit (driver/hidpp20.rs) talking   *)
(* to a device with onboard-profile EEPROM.                                *)
(***************************************************************************)
EXTENDS Integers, Sequences, FiniteSets, TLC

(* ------------------------------ bounds -------------------------------- *)
NumProfiles == 2
NumResolutions == 2
MaxRequests == 2
MaxIpcCalls == 1
MaxFaults == 1

(* ------------------------- program constants -------------------------- *)
ChannelCapacity == 16
DefaultDpi == 800
DefaultReportRate == 1000

Profiles == 0 .. (NumProfiles - 1)
Resolutions == 0 .. (NumResolutions - 1)
Requests == 1 .. MaxRequests

(* DPI values a client stages and report rates it asks for. *)
StagedDpis == {3200}
StagedRates == {500}
(* Sensor DPI the device may be running at when it is plugged in. *)
SensorDpis == {800, 1600}

VARIABLES
    info,          \* Arc<RwLock<DeviceInfo>>: the shared record
    registered,    \* run_server: registered_devices contains the device
    objProfile,    \* RatbagProfile.info, one per profile
    objRes,        \* RatbagResolution.info, one per (profile, resolution)
    objBtn,        \* RatbagButton.info, one per profile (button 0)
    objLed,        \* RatbagLed.info, one per profile (led 0)
    ipcCalls,      \* number of IPC setter calls made so far
    actorPc,       \* position of DeviceActor::run
    queue,         \* mpsc channel contents
    sendersAlive,  \* some ActorHandle still exists
    serverPc,      \* position of run_server for this device
    cur,           \* the request whose Commit message is being handled
    frame,         \* locals of the running Hidpp20Driver::commit
    drv,           \* Hidpp20Driver fields
    dev,           \* the mouse: mode, sensor, EEPROM
    faults,        \* number of transport requests that failed during commits
    reply,         \* oneshot channel of each commit() call
    callerPc,      \* position of each ActorHandle::commit() call
    callerResult,  \* what each commit() call returned
    nextReq,       \* next unused request id
    enqueued,      \* history: request ids in the order they entered the queue
    started,       \* history: request ids in the order driver.commit began
    afterShutdown, \* history: requests enqueued behind a Shutdown message
    drvResult,     \* history: what driver.commit returned for each request
    replySends,    \* history: number of reply.send calls per request
    ioOpen,        \* history: requests with transport I/O begun, commit unfinished
    sent,          \* history: writes transmitted by the commit being handled
    infoAtCommit,  \* history: the info record handed to the last driver.commit
    objAtCall,     \* history: the published objects at the latest commit() call
    asus,          \* an AsusDriver::commit call: its locals and its device
    io,            \* a DeviceIo::request call: its locals, the clock, the inbound stream
    mem            \* a sector transfer or codec call of the HID++ 2.0 driver

vars == << info, registered, objProfile, objRes, objBtn, objLed, ipcCalls,
           actorPc, queue, sendersAlive, serverPc, cur, frame, drv,
           dev, faults, reply, callerPc, callerResult, nextReq, enqueued, started,
           afterShutdown, drvResult, replySends, ioOpen, sent, infoAtCommit,
           objAtCall, asus, io, mem >>

ipcVars == << objProfile, objRes, objBtn, objLed, ipcCalls >>
histVars == << enqueued, started, afterShutdown, drvResult, replySends,
               ioOpen, sent, infoAtCommit, objAtCall >>
callerVars == << reply, callerPc, callerResult, nextReq >>
callVars == << asus, io, mem >>

(* ------------------------ device.rs: DeviceInfo ----------------------- *)
(* DeviceInfo::from_entry: the record seeded from the device database.    *)
ResolutionInfo_from_entry(ri) ==
    [ dpi |-> DefaultDpi, is_active |-> (ri = 0), is_default |-> (ri = 0),
      is_disabled |-> FALSE ]

ButtonInfo_from_entry(bi) ==
    [ action_type |-> "Button", mapping_value |-> bi ]

LedInfo_from_entry ==
    [ mode |-> 0, color |-> 0, effect_duration |-> 0, brightness |-> 255 ]

ProfileInfo_from_entry(idx) ==
    [ index |-> idx, name |-> "", is_active |-> (idx = 0), is_enabled |-> TRUE,
      is_dirty |-> FALSE, report_rate |-> DefaultReportRate,
      angle_snapping |-> -1, debounce |-> -1,
      resolutions |-> [ri \in Resolutions |-> ResolutionInfo_from_entry(ri)],
      button |-> ButtonInfo_from_entry(0),
      led |-> LedInfo_from_entry ]

DeviceInfo_from_entry ==
    [ profiles |-> [idx \in Profiles |-> ProfileInfo_from_entry(idx)] ]

ActiveProfiles(rec) == { p \in Profiles : rec.profiles[p].is_active }

(* iter().find(|p| p.is_active): the first active profile, or none (-1). *)
FindActive(rec) ==
    IF ActiveProfiles(rec) = {} THEN -1
    ELSE CHOOSE p \in ActiveProfiles(rec) : \A q \in ActiveProfiles(rec) : p <= q

(* iter().find(|r| r.is_active) / position(|r| r.is_default) on a profile. *)
FindRes(profile, flag) ==
    LET S == { r \in Resolutions :
                 IF flag = "active" THEN profile.resolutions[r].is_active
                 ELSE profile.resolutions[r].is_default }
    IN IF S = {} THEN -1 ELSE CHOOSE r \in S : \A q \in S : r <= q

(* ------------------- the mouse behind the transport ------------------- *)
(* A profile sector as the driver reads it: report-rate interval (byte 0), *)
(* default-DPI index (byte 1), the DPI list, and whether the trailing CRC  *)
(* matches the payload.                                                    *)
FactorySector ==
    [ rate_ms |-> 1, default_idx |-> 0,
      dpi |-> [r \in Resolutions |-> DefaultDpi * (r + 1)], crc_ok |-> TRUE ]

(* The feature maps probe can end with: the device implements the pages  *)
(* for live settings (DPI, report rate, LED effects) or not, and onboard  *)
(* profiles or not.                                                       *)
FeatureMaps ==
    { [ adjustable_dpi |-> live, report_rate |-> live,
        color_led_effects |-> live, onboard_profiles |-> onboard ] :
      live \in BOOLEAN, onboard \in BOOLEAN }

(* Hidpp20Driver::new() *)
Hidpp20Driver_new(features) ==
    [ features |-> features, cached_onboard_info |-> FALSE,
      cached_report_rate_hz |-> 0, needs_eeprom_repair |-> FALSE ]

NoFrame ==
    [ onboard |-> FALSE, pi |-> 0, force_repair |-> FALSE,
      any_written |-> FALSE, last_err |-> FALSE ]

(* ------------- Hidpp20Driver::load_profiles (hidpp20.rs) -------------- *)
(* f names the requests that fail during this load.                       *)
LoadFaults ==
    [ desc_ok : BOOLEAN, root_ok : BOOLEAN, sector_fail : SUBSET Profiles,
      dpi_ok : BOOLEAN, rate_ok : BOOLEAN, led_ok : BOOLEAN ]

(* One profile filled from its EEPROM sector. *)
LoadSector(profile, sector, enabled) ==
    [ profile EXCEPT
        !.is_enabled = enabled,
        !.report_rate = IF sector.rate_ms > 0 THEN 1000 \div sector.rate_ms
                        ELSE @,
        !.resolutions = [r \in Resolutions |->
            [ dpi |-> sector.dpi[r], is_active |-> (r = sector.default_idx),
              is_default |-> (r = sector.default_idx), is_disabled |-> FALSE ]] ]

(* read_dpi_info: the sensor's current DPI goes to the active resolution. *)
read_dpi_info(profile, d, d0, f) ==
    IF ~d0.features.adjustable_dpi \/ ~f.dpi_ok THEN profile
    ELSE [ profile EXCEPT !.resolutions = [r \in Resolutions |->
             IF @[r].is_active THEN [ @[r] EXCEPT !.dpi = d.sensor_dpi ]
             ELSE @[r] ] ]

(* read_report_rate: the device's current rate goes to the profile. *)
read_report_rate(profile, d, d0, f) ==
    IF ~d0.features.report_rate \/ ~f.rate_ok \/ d.rate_ms = 0 THEN profile
    ELSE [ profile EXCEPT !.report_rate = 1000 \div d.rate_ms ]

(* read_led_info: the zone's effect goes to the profile's LED. *)
read_led_info(profile, d, d0, f) ==
    IF ~d0.features.color_led_effects \/ ~f.led_ok THEN profile
    ELSE [ profile EXCEPT !.led.mode = d.led_mode ]

LoadNeedsRepair_directoryOnly(d, d0, f) ==
    d0.needs_eeprom_repair \/ ~d.dir_crc_ok

(* The repair flag after the sector reads of load_profiles. *)
LoadNeedsRepair(d, d0, f) ==
    \/ d0.needs_eeprom_repair
    \/ ~d.dir_crc_ok
    \/ \E p \in Profiles : p \notin f.sector_fail /\ ~d.sectors[p].crc_ok

LoadAborts_anyFailure(d0, f) ==
    \/ d0.features.onboard_profiles
          /\ (~f.desc_ok \/ ~f.root_ok \/ f.sector_fail # {})
    \/ ~f.dpi_ok \/ ~f.rate_ok \/ ~f.led_ok

(* The requests whose failure load_profiles propagates with `?`: the     *)
(* profiles description and the read of the directory sector.            *)
LoadAborts(d0, f) ==
    d0.features.onboard_profiles /\ (~f.desc_ok \/ ~f.root_ok)

(* The whole call: result, the record it leaves, the driver it leaves. *)
load_profiles(rec, d, d0, f) ==
    LET onboard == d0.features.onboard_profiles
        failed == LoadAborts(d0, f)
        enabled(p) == IF d.dir_crc_ok THEN d.dir_enabled[p] ELSE TRUE
        fromEeprom == [p \in Profiles |->
            IF onboard /\ p \notin f.sector_fail
            THEN LoadSector(rec.profiles[p], d.sectors[p], enabled(p))
            ELSE rec.profiles[p]]
        first == [fromEeprom EXCEPT ![0].is_active = TRUE]
        live == [p \in Profiles |->
            read_led_info(read_report_rate(read_dpi_info(first[p], d, d0, f),
                                           d, d0, f), d, d0, f)]
    IN [ ok |-> ~failed,
         info |-> IF failed THEN rec ELSE [profiles |-> live],
         drv |-> [ d0 EXCEPT
             !.cached_onboard_info = onboard /\ f.desc_ok,
             !.needs_eeprom_repair =
                 IF onboard /\ f.desc_ok /\ f.root_ok
                 THEN LoadNeedsRepair(d, d0, f) ELSE @,
             !.cached_report_rate_hz =
                 IF ~failed /\ d0.features.report_rate /\ f.rate_ok
                    /\ d.rate_ms > 0
                 THEN 1000 \div d.rate_ms ELSE @ ] ]

(* ------------------------------ Init ---------------------------------- *)
(* The device is plugged in but run_server has not seen it yet.           *)
Devices ==
    { [ features |-> fm, mode |-> "onboard", sensor_dpi |-> sd, rate_ms |-> 1,
        led_mode |-> 0, dir_crc_ok |-> dc,
        dir_enabled |-> [p \in Profiles |-> TRUE],
        sectors |-> [p \in Profiles |->
                       [FactorySector EXCEPT !.crc_ok = (p \notin bad)]] ] :
      fm \in FeatureMaps, sd \in SensorDpis, dc \in BOOLEAN,
      bad \in {{}, {NumProfiles - 1}} }

(* The daemon before the first DeviceAction, for a device out of D. *)
InitDaemon(D) ==
    /\ dev \in D
    /\ info = DeviceInfo_from_entry
    /\ registered = FALSE
    /\ objProfile = [p \in Profiles |-> ProfileInfo_from_entry(p)]
    /\ objRes = [p \in Profiles |->
                   [r \in Resolutions |-> ResolutionInfo_from_entry(r)]]
    /\ objBtn = [p \in Profiles |-> ButtonInfo_from_entry(0)]
    /\ objLed = [p \in Profiles |-> LedInfo_from_entry]
    /\ ipcCalls = 0
    /\ actorPc = "none"
    /\ queue = << >>
    /\ sendersAlive = FALSE
    /\ serverPc = "idle"
    /\ cur = 0
    /\ frame = NoFrame
    /\ faults = 0
    /\ drv = Hidpp20Driver_new([ adjustable_dpi |-> FALSE, report_rate |-> FALSE,
                                 color_led_effects |-> FALSE,
                                 onboard_profiles |-> FALSE ])
    /\ reply = [id \in Requests |-> "empty"]
    /\ callerPc = [id \in Requests |-> "idle"]
    /\ callerResult = [id \in Requests |-> "none"]
    /\ nextReq = 1
    /\ enqueued = << >>
    /\ started = << >>
    /\ afterShutdown = {}
    /\ drvResult = [id \in Requests |-> "none"]
    /\ replySends = [id \in Requests |-> 0]
    /\ ioOpen = {}
    /\ sent = {}
    /\ infoAtCommit = DeviceInfo_from_entry
    /\ objAtCall = [ profile |-> objProfile, res |-> objRes ]

(* No driver or transport call is being followed on its own. *)
NoCall == [ pc |-> "none" ]

Init ==
    /\ InitDaemon(Devices)
    /\ asus = NoCall
    /\ io = NoCall
    /\ mem = NoCall

(* --------------- dbus/mod.rs: run_server, DeviceAction::Add ----------- *)
(* spawn_device_actor (open, probe, load_profiles, spawn) followed by     *)
(* register_device_on_dbus, which hands every object a clone of its part  *)
(* of the record.                                                         *)
spawn_device_actor(probe_ok, f) ==
    LET probed == Hidpp20Driver_new(dev.features)
        L == load_profiles(info, dev, probed, f)
    IN IF ~probe_ok
       THEN [ handle |-> FALSE, info |-> info, drv |-> drv ]
       ELSE [ handle |-> L.ok, info |-> L.info, drv |-> L.drv ]

register_device_on_dbus(rec) ==
    /\ registered' = TRUE
    /\ objProfile' = [p \in Profiles |-> rec.profiles[p]]
    /\ objRes' = [p \in Profiles |-> rec.profiles[p].resolutions]
    /\ objBtn' = [p \in Profiles |-> rec.profiles[p].button]
    /\ objLed' = [p \in Profiles |-> rec.profiles[p].led]

DeviceAdd ==
    /\ serverPc = "idle"
    /\ \E probe_ok \in BOOLEAN, f \in LoadFaults :
         LET S == spawn_device_actor(probe_ok, f)
         IN /\ info' = S.info
            /\ drv' = S.drv
            /\ actorPc' = IF S.handle THEN "recv" ELSE "none"
            /\ sendersAlive' = S.handle
            /\ register_device_on_dbus(S.info)
    /\ serverPc' = "added"
    /\ UNCHANGED << ipcCalls, queue, cur, frame, dev, faults, callerVars,
                    histVars >>
    /\ UNCHANGED callVars

(* ---------------- dbus/: property setters and methods ----------------- *)
(* Every published object owns the clone it was constructed with; a setter *)
(* takes that object's own lock and writes that object's own record.       *)
InvalidValue == -1

(* A setter that writes into the shared record, without regard to the    *)
(* read guard the actor holds.                                            *)
IpcCall_shared ==
    /\ registered
    /\ ipcCalls < MaxIpcCalls
    /\ ipcCalls' = ipcCalls + 1
    /\ info' = [info EXCEPT !.profiles =
                  [p \in Profiles |-> [@[p] EXCEPT !.is_dirty = TRUE]]]
    /\ UNCHANGED << registered, actorPc, queue, sendersAlive, serverPc,
                    cur, frame, drv, dev, faults, callerVars, histVars >>
    /\ UNCHANGED callVars

IpcCall ==
    /\ registered
    /\ ipcCalls < MaxIpcCalls
    /\ ipcCalls' = ipcCalls + 1
    /\ UNCHANGED << info, registered, actorPc, queue, sendersAlive, serverPc,
                    cur, frame, drv, dev, faults, callerVars, histVars >>
    /\ UNCHANGED callVars

RatbagProfile_set_name ==
    /\ IpcCall
    /\ \E p \in Profiles, name \in {"gaming"} :
         objProfile' = [objProfile EXCEPT ![p].name = name, ![p].is_dirty = TRUE]
    /\ UNCHANGED << objRes, objBtn, objLed >>

RatbagProfile_set_disabled ==
    /\ IpcCall
    /\ \E p \in Profiles, disabled \in BOOLEAN :
         objProfile' = [objProfile EXCEPT ![p].is_enabled = ~disabled, ![p].is_dirty = TRUE]
    /\ UNCHANGED << objRes, objBtn, objLed >>

RatbagProfile_set_angle_snapping ==
    /\ IpcCall
    /\ \E p \in Profiles, value \in {1} :
         objProfile' = [objProfile EXCEPT ![p].angle_snapping = value, ![p].is_dirty = TRUE]
    /\ UNCHANGED << objRes, objBtn, objLed >>

RatbagProfile_set_debounce ==
    /\ IpcCall
    /\ \E p \in Profiles, value \in {8} :
         objProfile' = [objProfile EXCEPT ![p].debounce = value, ![p].is_dirty = TRUE]
    /\ UNCHANGED << objRes, objBtn, objLed >>

RatbagProfile_set_report_rate ==
    /\ IpcCall
    /\ \E p \in Profiles, rate \in StagedRates :
         objProfile' = [objProfile EXCEPT ![p].report_rate = rate, ![p].is_dirty = TRUE]
    /\ UNCHANGED << objRes, objBtn, objLed >>

RatbagProfile_set_active ==
    /\ IpcCall
    /\ \E p \in Profiles :
         objProfile' = [objProfile EXCEPT ![p].is_active = TRUE, ![p].is_dirty = TRUE]
    /\ UNCHANGED << objRes, objBtn, objLed >>

RatbagResolution_set_is_disabled ==
    /\ IpcCall
    /\ \E p \in Profiles, r \in Resolutions, disabled \in BOOLEAN :
         objRes' = [objRes EXCEPT ![p][r].is_disabled = disabled]
    /\ UNCHANGED << objProfile, objBtn, objLed >>

RatbagResolution_set_resolution ==
    /\ IpcCall
    /\ \E p \in Profiles, r \in Resolutions, value \in StagedDpis \cup {InvalidValue} :
         objRes' = [objRes EXCEPT ![p][r].dpi = IF value = InvalidValue THEN @ ELSE value]
    /\ UNCHANGED << objProfile, objBtn, objLed >>

RatbagResolution_set_active ==
    /\ IpcCall
    /\ \E p \in Profiles, r \in Resolutions :
         objRes' = [objRes EXCEPT ![p][r].is_active = TRUE]
    /\ UNCHANGED << objProfile, objBtn, objLed >>

RatbagResolution_set_default ==
    /\ IpcCall
    /\ \E p \in Profiles, r \in Resolutions :
         objRes' = [objRes EXCEPT ![p][r].is_default = TRUE]
    /\ UNCHANGED << objProfile, objBtn, objLed >>

RatbagButton_set_mapping ==
    /\ IpcCall
    /\ \E p \in Profiles, action_type \in {"Key"}, value \in {30} :
         objBtn' = [objBtn EXCEPT ![p].action_type = action_type, ![p].mapping_value = value]
    /\ UNCHANGED << objProfile, objRes, objLed >>

RatbagLed_set_mode ==
    /\ IpcCall
    /\ \E p \in Profiles, mode \in {1} :
         objLed' = [objLed EXCEPT ![p].mode = mode]
    /\ UNCHANGED << objProfile, objRes, objBtn >>

RatbagLed_set_color ==
    /\ IpcCall
    /\ \E p \in Profiles, color \in {255} :
         objLed' = [objLed EXCEPT ![p].color = color]
    /\ UNCHANGED << objProfile, objRes, objBtn >>

RatbagLed_set_effect_duration ==
    /\ IpcCall
    /\ \E p \in Profiles, duration \in {1000} :
         objLed' = [objLed EXCEPT ![p].effect_duration = duration]
    /\ UNCHANGED << objProfile, objRes, objBtn >>

RatbagLed_set_brightness ==
    /\ IpcCall
    /\ \E p \in Profiles, brightness \in {128} :
         objLed' = [objLed EXCEPT ![p].brightness = brightness]
    /\ UNCHANGED << objProfile, objRes, objBtn >>

IpcSetter ==
    \/ RatbagProfile_set_name
    \/ RatbagProfile_set_disabled
    \/ RatbagProfile_set_angle_snapping
    \/ RatbagProfile_set_debounce
    \/ RatbagProfile_set_report_rate
    \/ RatbagProfile_set_active
    \/ RatbagResolution_set_is_disabled
    \/ RatbagResolution_set_resolution
    \/ RatbagResolution_set_active
    \/ RatbagResolution_set_default
    \/ RatbagButton_set_mapping
    \/ RatbagLed_set_mode
    \/ RatbagLed_set_color
    \/ RatbagLed_set_effect_duration
    \/ RatbagLed_set_brightness

(* ------------------ actor.rs: ActorHandle (the callers) --------------- *)
CommitMsg(id) == [ type |-> "Commit", reply |-> id ]
ShutdownMsg == [ type |-> "Shutdown", reply |-> 0 ]

ShutdownQueued == \E i \in 1 .. Len(queue) : queue[i].type = "Shutdown"

(* ActorHandle::commit up to the end of tx.send(..).await: the message is *)
(* queued, or the send fails because the receiver is gone.                *)
ActorHandle_commit_send ==
    /\ registered
    /\ sendersAlive
    /\ nextReq <= MaxRequests
    /\ actorPc # "exited"
    /\ Len(queue) < ChannelCapacity
    /\ queue' = Append(queue, CommitMsg(nextReq))
    /\ callerPc' = [callerPc EXCEPT ![nextReq] = "waiting"]
    /\ nextReq' = nextReq + 1
    /\ enqueued' = Append(enqueued, nextReq)
    /\ objAtCall' = [ profile |-> objProfile, res |-> objRes ]
    /\ afterShutdown' = IF ShutdownQueued THEN afterShutdown \cup {nextReq}
                        ELSE afterShutdown
    /\ UNCHANGED << info, registered, ipcVars, actorPc, sendersAlive, serverPc,
                    cur, frame, drv, dev, faults, reply, callerResult, started,
                    drvResult, replySends, ioOpen, sent, infoAtCommit >>
    /\ UNCHANGED callVars

ActorHandle_commit_send_closed ==
    /\ registered
    /\ sendersAlive
    /\ nextReq <= MaxRequests
    /\ actorPc = "exited"
    /\ callerPc' = [callerPc EXCEPT ![nextReq] = "returned"]
    /\ callerResult' = [callerResult EXCEPT ![nextReq] = "ErrNotRunning"]
    /\ nextReq' = nextReq + 1
    /\ UNCHANGED << info, registered, ipcVars, actorPc, queue, sendersAlive,
                    serverPc, cur, frame, drv, dev, faults, reply, histVars >>
    /\ UNCHANGED callVars

(* ActorHandle::commit, reply_rx.await: the reply, or the error for a     *)
(* reply sender that was dropped unsent.                                  *)
ActorHandle_commit_reply ==
    /\ \E id \in Requests :
         /\ callerPc[id] = "waiting"
         /\ reply[id] # "empty"
         /\ callerPc' = [callerPc EXCEPT ![id] = "returned"]
         /\ callerResult' = [callerResult EXCEPT ![id] =
                IF reply[id] = "dropped" THEN "ErrDropped" ELSE reply[id]]
    /\ UNCHANGED << info, registered, ipcVars, actorPc, queue, sendersAlive,
                    serverPc, cur, frame, drv, dev, faults, reply, nextReq,
                    histVars >>
    /\ UNCHANGED callVars

(* -------------- dbus/mod.rs: run_server, removal and exit ------------- *)
(* DeviceAction::Remove: handle.shutdown().await ...                      *)
Remove_shutdown ==
    /\ serverPc = "added"
    /\ serverPc' = "removing"
    /\ queue' = IF sendersAlive /\ actorPc # "exited"
                   /\ Len(queue) < ChannelCapacity
                THEN Append(queue, ShutdownMsg) ELSE queue
    /\ UNCHANGED << info, registered, ipcVars, actorPc, sendersAlive, cur,
                    frame, drv, dev, faults, callerVars, histVars >>
    /\ UNCHANGED callVars

(* ... then every object of the device is removed from the object server. *)
Remove_unregister ==
    /\ serverPc = "removing"
    /\ serverPc' = "removed"
    /\ registered' = FALSE
    /\ sendersAlive' = FALSE
    /\ UNCHANGED << info, ipcVars, actorPc, queue, cur, frame, drv, dev, faults,
                    callerVars, histVars >>
    /\ UNCHANGED callVars

(* The udev channel closes: run_server returns and drops every handle.    *)
Server_exit ==
    /\ serverPc = "added"
    /\ serverPc' = "exited"
    /\ registered' = FALSE
    /\ sendersAlive' = FALSE
    /\ UNCHANGED << info, ipcVars, actorPc, queue, cur, frame, drv, dev, faults,
                    callerVars, histVars >>
    /\ UNCHANGED callVars

(* ---------------------- actor.rs: DeviceActor::run -------------------- *)
(* An actor that takes the next message while a commit is still running. *)
ActorAtRecv_busy == actorPc \notin {"none", "exited"}

(* The loop is back at self.rx.recv().await.                              *)
ActorAtRecv == actorPc = "recv"

(* A receiver that hands out the newest message. *)
NextIndex_newest(q) == Len(q)

(* recv() hands out the oldest message. *)
NextIndex(q) == 1

RemoveAt(q, i) == SubSeq(q, 1, i - 1) \o SubSeq(q, i + 1, Len(q))

(* A Shutdown arm that logs and stays in the loop. *)
OnShutdown_continue == "recv"

(* ActorMessage::Shutdown => break *)
OnShutdown == "exited"

(* A reply sent on the first caller's channel. *)
ReplyChannel_first(id) == 1

(* reply.send(response) goes to the sender carried by the message. *)
ReplyChannel(id) == id

DropReceiver_leak(q) ==
    /\ queue' = << >>
    /\ UNCHANGED reply

(* Dropping the receiver drops the queued messages and their senders. *)
DropReceiver(q) ==
    /\ queue' = << >>
    /\ reply' = [id \in Requests |->
         IF \E i \in 1 .. Len(q) : q[i] = CommitMsg(id) THEN "dropped"
         ELSE reply[id]]

(* No sender is left: the handles are dropped and no call is in progress. *)
SendersDropped ==
    /\ ~sendersAlive
    /\ \A id \in Requests : callerPc[id] # "waiting"

Actor_recv_Commit ==
    /\ ActorAtRecv
    /\ queue # << >>
    /\ queue[NextIndex(queue)].type = "Commit"
    /\ cur' = queue[NextIndex(queue)].reply
    /\ queue' = RemoveAt(queue, NextIndex(queue))
    /\ actorPc' = "dpi"
    /\ frame' = NoFrame
    /\ started' = Append(started, queue[NextIndex(queue)].reply)
    /\ sent' = {}
    /\ infoAtCommit' = info
    /\ UNCHANGED << info, registered, ipcVars, sendersAlive, serverPc, drv, dev,
                    faults, callerVars, enqueued, afterShutdown, drvResult, replySends,
                    ioOpen, objAtCall >>
    /\ UNCHANGED callVars

Actor_recv_Shutdown ==
    /\ ActorAtRecv
    /\ queue # << >>
    /\ queue[NextIndex(queue)].type = "Shutdown"
    /\ actorPc' = OnShutdown
    /\ IF OnShutdown = "exited"
       THEN DropReceiver(RemoveAt(queue, NextIndex(queue)))
       ELSE queue' = RemoveAt(queue, NextIndex(queue)) /\ UNCHANGED reply
    /\ UNCHANGED << info, registered, ipcVars, sendersAlive, serverPc, cur,
                    frame, drv, dev, faults, callerPc, callerResult, nextReq,
                    histVars >>
    /\ UNCHANGED callVars

(* recv() returns None: the channel is empty and closed. *)
Actor_recv_None ==
    /\ actorPc = "recv"
    /\ queue = << >>
    /\ SendersDropped
    /\ actorPc' = "exited"
    /\ UNCHANGED << info, registered, ipcVars, queue, sendersAlive, serverPc,
                    cur, frame, drv, dev, faults, callerVars, histVars >>
    /\ UNCHANGED callVars

(* ---------------- Hidpp20Driver::commit (hidpp20.rs) ------------------ *)
(* The handler of one Commit message, cut at its transport requests.      *)
(* Every request either is acknowledged (ok) or fails (error reply or     *)
(* timeout); at most MaxFaults requests fail.                             *)
ONBOARD_MODE_ONBOARD == 1
ONBOARD_MODE_HOST == 2

AsU16(v) == v % 65536
AsU8(v) == v % 256

Failing(oks) == Cardinality({ i \in DOMAIN oks : ~oks[i] })

(* One or more transport requests with the given outcomes, on behalf of   *)
(* the message being handled; w is the write they carry.                  *)
Transmit(w, oks) ==
    /\ faults + Failing(oks) <= MaxFaults
    /\ faults' = faults + Failing(oks)
    /\ sent' = sent \cup {w}
    /\ ioOpen' = ioOpen \cup {cur}

NoTransmit == UNCHANGED << sent, ioOpen, faults >>

stepUnchanged ==
    UNCHANGED << info, registered, ipcVars, queue, sendersAlive, serverPc, cur,
                 callerVars, enqueued, started, afterShutdown, drvResult,
                 replySends, infoAtCommit, objAtCall, callVars >>

(* write_dpi_info for the active profile. *)
Commit_write_dpi_info ==
    /\ actorPc = "dpi"
    /\ actorPc' = "rate"
    /\ LET a == FindActive(info)
           r == IF a = -1 THEN -1 ELSE FindRes(info.profiles[a], "active")
       IN IF a # -1 /\ drv.features.adjustable_dpi /\ r # -1
          THEN \E ok \in BOOLEAN :
                 /\ dev' = IF ok
                           THEN [dev EXCEPT !.sensor_dpi =
                                   AsU16(info.profiles[a].resolutions[r].dpi)]
                           ELSE dev
                 /\ Transmit(<<"dpi", a>>, <<ok>>)
          ELSE UNCHANGED dev /\ NoTransmit
    /\ UNCHANGED << frame, drv >>
    /\ stepUnchanged

(* write_report_rate for the active profile; skipped when the rate equals *)
(* the cached one.                                                        *)
Commit_write_report_rate ==
    /\ actorPc = "rate"
    /\ actorPc' = "led"
    /\ LET a == FindActive(info)
       IN IF /\ a # -1
             /\ drv.features.report_rate
             /\ info.profiles[a].report_rate > 0
             /\ info.profiles[a].report_rate # drv.cached_report_rate_hz
          THEN \E ok \in BOOLEAN :
                 /\ dev' = IF ok
                           THEN [dev EXCEPT !.rate_ms =
                                   AsU8(1000 \div info.profiles[a].report_rate)]
                           ELSE dev
                 /\ Transmit(<<"rate", a>>, <<ok>>)
          ELSE UNCHANGED dev /\ NoTransmit
    /\ UNCHANGED << frame, drv >>
    /\ stepUnchanged

(* write_led_info for the active profile. *)
Commit_write_led_info ==
    /\ actorPc = "led"
    /\ actorPc' = "host"
    /\ LET a == FindActive(info)
       IN IF a # -1 /\ drv.features.color_led_effects
          THEN \E ok \in BOOLEAN :
                 /\ dev' = IF ok
                           THEN [dev EXCEPT !.led_mode = info.profiles[a].led.mode]
                           ELSE dev
                 /\ Transmit(<<"led", a>>, <<ok>>)
          ELSE UNCHANGED dev /\ NoTransmit
    /\ UNCHANGED << frame, drv >>
    /\ stepUnchanged

(* The onboard-profile path begins: force_repair is latched and the       *)
(* device is asked to enter host mode. Without the feature commit is done. *)
Commit_host_mode ==
    /\ actorPc = "host"
    /\ IF drv.features.onboard_profiles /\ drv.cached_onboard_info
       THEN /\ actorPc' = "sector"
            /\ frame' = [frame EXCEPT !.onboard = TRUE,
                                      !.force_repair = drv.needs_eeprom_repair]
            /\ \E ok \in BOOLEAN :
                 /\ dev' = IF ok THEN [dev EXCEPT !.mode = "host"] ELSE dev
                 /\ Transmit(<<"mode", ONBOARD_MODE_HOST>>, <<ok>>)
       ELSE /\ actorPc' = "finish"
            /\ UNCHANGED << frame, dev >>
            /\ NoTransmit
    /\ UNCHANGED drv
    /\ stepUnchanged

WriteNeeded_dirtyOnly(profile, force_repair) == profile.is_dirty

(* if !profile.is_dirty && !force_repair { continue; } *)
WriteNeeded(profile, force_repair) == profile.is_dirty \/ force_repair

(* The all-0xFF buffer used when the sector cannot be read. *)
BlankSector ==
    [ rate_ms |-> 255, default_idx |-> 255,
      dpi |-> [r \in Resolutions |-> 65535], crc_ok |-> FALSE ]

(* The sector image commit builds: managed fields patched, CRC recomputed. *)
PatchSector(base, profile) ==
    [ rate_ms |-> IF profile.report_rate > 0
                  THEN AsU8(1000 \div profile.report_rate) ELSE base.rate_ms,
      default_idx |-> IF FindRes(profile, "default") # -1
                      THEN AsU8(FindRes(profile, "default"))
                      ELSE base.default_idx,
      dpi |-> [r \in Resolutions |-> AsU16(profile.resolutions[r].dpi)],
      crc_ok |-> TRUE ]

(* One pass of the loop over info.profiles: read the sector, patch it,    *)
(* write it. The firmware accepts memory writes only in host mode.        *)
Commit_profile_sector ==
    /\ actorPc = "sector"
    /\ LET p == frame.pi
           profile == info.profiles[p]
       IN /\ actorPc' = IF p + 1 = NumProfiles THEN "dir" ELSE "sector"
          /\ IF WriteNeeded(profile, frame.force_repair)
             THEN \E read_ok \in BOOLEAN, write_ok \in BOOLEAN :
                    LET base == IF read_ok THEN dev.sectors[p] ELSE BlankSector
                        done == write_ok /\ dev.mode = "host"
                    IN /\ dev' = IF done
                                 THEN [dev EXCEPT !.sectors[p] =
                                         PatchSector(base, profile)]
                                 ELSE dev
                       /\ frame' = [frame EXCEPT
                              !.pi = p + 1,
                              !.any_written = @ \/ done,
                              !.last_err = @ \/ ~done]
                       /\ Transmit(<<"sector", p>>, <<read_ok, write_ok>>)
             ELSE /\ frame' = [frame EXCEPT !.pi = p + 1]
                  /\ UNCHANGED dev
                  /\ NoTransmit
    /\ UNCHANGED drv
    /\ stepUnchanged

(* The directory (sector 0) is rebuilt when a profile sector was written. *)
Commit_directory ==
    /\ actorPc = "dir"
    /\ actorPc' = "onboard"
    /\ IF frame.any_written
       THEN \E ok \in BOOLEAN :
              LET done == ok /\ dev.mode = "host"
              IN /\ dev' = IF done
                           THEN [dev EXCEPT
                              !.dir_crc_ok = TRUE,
                              !.dir_enabled = [p \in Profiles |->
                                  info.profiles[p].is_enabled]]
                           ELSE dev
                 /\ frame' = [frame EXCEPT !.last_err = @ \/ ~done]
                 /\ Transmit(<<"dir", 0>>, <<ok>>)
       ELSE UNCHANGED << frame, dev >> /\ NoTransmit
    /\ UNCHANGED drv
    /\ stepUnchanged

(* Switch back to onboard mode after the EEPROM writes. *)
Commit_onboard_mode ==
    /\ actorPc = "onboard"
    /\ actorPc' = "finish"
    /\ \E ok \in BOOLEAN :
         /\ dev' = IF ok THEN [dev EXCEPT !.mode = "onboard"] ELSE dev
         /\ Transmit(<<"mode", ONBOARD_MODE_ONBOARD>>, <<ok>>)
    /\ UNCHANGED << frame, drv >>
    /\ stepUnchanged

RepairFlagAfter_cleared(fr) == FALSE

(* needs_eeprom_repair as the onboard-profile path leaves it: kept set    *)
(* after a failed sector or directory write, cleared otherwise.           *)
RepairFlagAfter(fr) == fr.last_err

(* What commit returns: the last sector-write error, if any. *)
CommitResult(fr) == IF fr.last_err THEN "Err" ELSE "Ok"

(* A loop that ends on a driver error instead of reporting it. *)
AfterReply_stopOnErr(result) == IF result = "Err" THEN "exited" ELSE "recv"

(* The Commit arm ends and the while loop goes round, whatever the result. *)
AfterReply(result) == "recv"

(* commit returns, the actor formats the result and sends the reply; the  *)
(* read guard on info is released and the loop returns to recv().         *)
Actor_reply ==
    /\ actorPc = "finish"
    /\ actorPc' = AfterReply(CommitResult(frame))
    /\ drv' = IF frame.onboard
              THEN [drv EXCEPT !.needs_eeprom_repair = RepairFlagAfter(frame)]
              ELSE drv
    /\ drvResult' = [drvResult EXCEPT ![cur] = CommitResult(frame)]
    /\ reply' = [reply EXCEPT ![ReplyChannel(cur)] = CommitResult(frame)]
    /\ replySends' = [replySends EXCEPT ![ReplyChannel(cur)] = @ + 1]
    /\ ioOpen' = ioOpen \ {cur}
    /\ UNCHANGED << info, registered, ipcVars, queue, sendersAlive, serverPc,
                    cur, frame, dev, faults, callerPc, callerResult, nextReq, enqueued,
                    started, afterShutdown, sent, infoAtCommit, objAtCall >>
    /\ UNCHANGED callVars

(* ------------------------------ Next ---------------------------------- *)
(* The device, its actor, the callers of commit() and the server. The     *)
(* setters are left to SpecStaged and SpecIpc: no setter reads or writes   *)
(* anything the actor, the driver or the callers use.                      *)
Next ==
    \/ DeviceAdd
    \/ ActorHandle_commit_send
    \/ ActorHandle_commit_send_closed
    \/ ActorHandle_commit_reply
    \/ Remove_shutdown
    \/ Remove_unregister
    \/ Server_exit
    \/ Actor_recv_Commit
    \/ Actor_recv_Shutdown
    \/ Actor_recv_None
    \/ Commit_write_dpi_info
    \/ Commit_write_report_rate
    \/ Commit_write_led_info
    \/ Commit_host_mode
    \/ Commit_profile_sector
    \/ Commit_directory
    \/ Commit_onboard_mode
    \/ Actor_reply

Spec == Init /\ [][Next]_vars

(* A mouse as it leaves the factory: every checksum right. *)
FactoryDevice ==
    CHOOSE d \in Devices :
       /\ d.dir_crc_ok
       /\ d.sensor_dpi = DefaultDpi
       /\ \A p \in Profiles : d.sectors[p].crc_ok
       /\ d.features.adjustable_dpi /\ d.features.onboard_profiles

(* The steps of the actor task and of a caller resuming on its reply.     *)
ActorStep ==
    \/ Actor_recv_Commit
    \/ Actor_recv_Shutdown
    \/ Actor_recv_None
    \/ Commit_write_dpi_info
    \/ Commit_write_report_rate
    \/ Commit_write_led_info
    \/ Commit_host_mode
    \/ Commit_profile_sector
    \/ Commit_directory
    \/ Commit_onboard_mode
    \/ Actor_reply

(* The daemon with a mouse in its factory state. *)
InitFactory ==
    /\ InitDaemon({FactoryDevice})
    /\ asus = NoCall
    /\ io = NoCall
    /\ mem = NoCall

(* The runtime keeps polling the actor task and wakes a caller whose      *)
(* reply channel has been completed or closed.                            *)
SpecFair ==
    /\ InitFactory /\ [][Next]_vars
    /\ WF_vars(ActorStep) /\ WF_vars(ActorHandle_commit_reply)

(* The same, with clients that stage changes before and during commits.  *)
IpcStaging ==
    \/ RatbagProfile_set_name
    \/ RatbagProfile_set_active
    \/ RatbagResolution_set_resolution

NextStaged ==
    \/ Next
    \/ IpcStaging

SpecStaged == Init /\ [][NextStaged]_vars

(* A mouse in its factory state and a client that renames profiles      *)
(* before and during commits.                                            *)
NextRename ==
    \/ Next
    \/ RatbagProfile_set_name

SpecRename == InitFactory /\ [][NextRename]_vars

(* The whole setter surface of the published objects, without the actor.  *)
NextIpc ==
    \/ DeviceAdd
    \/ IpcSetter

SpecIpc == Init /\ [][NextIpc]_vars

(* ------------------- driver/asus.rs: AsusDriver ------------------------ *)
(* An AsusDriver followed on its own: spawn_device_actor probes it and     *)
(* loads the profiles, then the actor is handed one commit. The input of   *)
(* the commit is the is_dirty flag of every profile of the DeviceInfo; the *)
(* device keeps a hardware-selected profile that set_profile changes.      *)
(* Every request is acknowledged or fails; at most MaxFaults of the        *)
(* requests of one call fail.                                              *)
AsusCalls ==
    { [ pc |-> "probe", phase |-> "startup", handshake |-> "none",
        probe |-> "none", is_ready |-> FALSE, ready0 |-> FALSE, dirty |-> dty,
        selected |-> sel, selected0 |-> sel, initial_id |-> 0, i |-> 0,
        result |-> "none", faults |-> 0 ] :
      dty \in [Profiles -> BOOLEAN], sel \in Profiles }

InitAsus ==
    /\ InitDaemon({FactoryDevice})
    /\ asus \in AsusCalls
    /\ io = NoCall
    /\ mem = NoCall

AsusUnchanged ==
    UNCHANGED << info, registered, ipcVars, actorPc, queue, sendersAlive,
                 serverPc, cur, frame, drv, dev, faults, callerVars, histVars,
                 io, mem >>

(* The outcomes a request of this call can have. *)
AsusOutcomes(n) ==
    { oks \in [1 .. n -> BOOLEAN] : asus.faults + Failing(oks) <= MaxFaults }

(* The running call returns: load_profiles records a failed load in       *)
(* is_ready and returns Ok; commit returns its result.                    *)
AsusReturn(result) ==
    IF asus.phase = "startup"
    THEN [ asus EXCEPT !.pc = "loaded", !.is_ready = (result = "Ok") ]
    ELSE [ asus EXCEPT !.pc = "done", !.result = result ]

(* get_profile_data: the id of the profile the hardware has selected. *)
Asus_get_profile_data(then) ==
    \E oks \in AsusOutcomes(1) :
       asus' = IF ~oks[1]
               THEN [ AsusReturn("Err") EXCEPT !.faults = @ + 1 ]
               ELSE [ asus EXCEPT
                        !.pc = then, !.i = 0,
                        !.initial_id = IF NumProfiles > 1 THEN asus.selected
                                       ELSE 0 ]

ProbeResult_strict(ok) == IF ok THEN "Ok" ELSE "Err"

(* What probe returns for an answered or a failed GET_PROFILE_DATA. *)
ProbeResult(ok) == "Ok"

(* probe: one query; spawn_device_actor goes on to load_profiles unless   *)
(* probe returned an error.                                               *)
Asus_probe ==
    /\ asus.pc = "probe"
    /\ \E ok \in BOOLEAN :
         asus' = [ asus EXCEPT
                     !.handshake = IF ok THEN "answered" ELSE "failed",
                     !.probe = ProbeResult(ok),
                     !.is_ready = ok,
                     !.pc = IF ProbeResult(ok) = "Ok" THEN "load_profiles"
                            ELSE "refused" ]
    /\ AsusUnchanged

(* load_profiles: load_all_profiles on the shared record begins. *)
Asus_load_profiles ==
    /\ asus.pc = "load_profiles"
    /\ Asus_get_profile_data("load")
    /\ AsusUnchanged

(* The actor is spawned and receives a Commit: driver.commit is called. *)
Asus_commit ==
    /\ asus.pc = "loaded"
    /\ asus' = [ asus EXCEPT !.pc = "call", !.phase = "commit",
                             !.ready0 = asus.is_ready,
                             !.selected0 = asus.selected, !.faults = 0 ]
    /\ AsusUnchanged

(* commit, device not ready: load_all_profiles on a scratch copy begins. *)
Asus_recover_start ==
    /\ asus.pc = "call"
    /\ ~asus.is_ready
    /\ Asus_get_profile_data("load")
    /\ AsusUnchanged

(* load_all_profiles, one profile: switch to it unless it is the initial   *)
(* one, then load_single_profile; either failure returns at once.          *)
Asus_load_profile ==
    /\ asus.pc = "load"
    /\ LET p == asus.i
           switch == p # asus.initial_id
       IN \E oks \in AsusOutcomes(2) :
            asus' =
              IF switch /\ ~oks[1]
              THEN [ AsusReturn("Err") EXCEPT !.faults = @ + 1 ]
              ELSE IF ~oks[2]
              THEN [ AsusReturn("Err") EXCEPT
                       !.faults = @ + 1,
                       !.selected = IF switch THEN p ELSE @ ]
              ELSE [ asus EXCEPT
                       !.selected = IF switch THEN p ELSE @,
                       !.i = p + 1,
                       !.pc = IF p + 1 = NumProfiles THEN "load_restore"
                              ELSE "load" ]
    /\ AsusUnchanged

(* load_all_profiles restores the initial profile. load_profiles records  *)
(* the outcome in is_ready; commit does too and then bails, whether the    *)
(* recovery succeeded or not.                                              *)
Asus_load_restore ==
    /\ asus.pc = "load_restore"
    /\ \E oks \in AsusOutcomes(1) :
         asus' = [ AsusReturn("Err") EXCEPT
                     !.faults = @ + Failing(oks),
                     !.is_ready = oks[1] \/ NumProfiles <= 1,
                     !.selected = IF oks[1] /\ NumProfiles > 1
                                  THEN asus.initial_id ELSE @ ]
    /\ AsusUnchanged

(* commit, device ready: save_all_profiles begins. *)
Asus_save_start ==
    /\ asus.pc = "call"
    /\ asus.is_ready
    /\ IF NumProfiles > 1
       THEN Asus_get_profile_data("save")
       ELSE asus' = [ asus EXCEPT !.pc = "save", !.i = 0, !.initial_id = 0 ]
    /\ AsusUnchanged

(* save_all_profiles, a failure after the switch to profile p: the error   *)
(* is returned at once with `?`.                                           *)
Asus_save_failed(p) ==
    [ AsusReturn("Err") EXCEPT !.faults = @ + 1, !.selected = p ]

(* save_all_profiles, one profile: clean profiles are skipped; a dirty one *)
(* is switched to (unless it is the initial one), saved and persisted.     *)
Asus_save_profile ==
    /\ asus.pc = "save"
    /\ LET p == asus.i
           switch == NumProfiles > 1 /\ p # asus.initial_id
           next == [ asus EXCEPT
                       !.i = p + 1,
                       !.pc = IF p + 1 = NumProfiles THEN "restore" ELSE "save" ]
       IN IF ~asus.dirty[p]
          THEN asus' = next
          ELSE \E oks \in AsusOutcomes(2) :
                 asus' =
                   IF switch /\ ~oks[1]
                   THEN [ AsusReturn("Err") EXCEPT !.faults = @ + 1 ]
                   ELSE IF ~oks[2]
                   THEN IF switch THEN Asus_save_failed(p)
                        ELSE [ AsusReturn("Err") EXCEPT !.faults = @ + 1 ]
                   ELSE [ next EXCEPT !.selected = IF switch THEN p ELSE @ ]
    /\ AsusUnchanged

(* save_all_profiles restores the originally active profile. *)
Asus_save_restore ==
    /\ asus.pc = "restore"
    /\ IF NumProfiles > 1
       THEN \E oks \in AsusOutcomes(1) :
              asus' = IF oks[1]
                      THEN [ AsusReturn("Ok") EXCEPT
                               !.selected = asus.initial_id ]
                      ELSE [ AsusReturn("Err") EXCEPT !.faults = @ + 1 ]
       ELSE asus' = AsusReturn("Ok")
    /\ AsusUnchanged

NextAsus ==
    \/ Asus_probe
    \/ Asus_load_profiles
    \/ Asus_commit
    \/ Asus_recover_start
    \/ Asus_load_profile
    \/ Asus_load_restore
    \/ Asus_save_start
    \/ Asus_save_profile
    \/ Asus_save_restore

SpecAsus == InitAsus /\ [][NextAsus]_vars

(* ---------------- driver/mod.rs: DeviceIo::request -------------------- *)
(* Time is counted in milliseconds. The call is modelled with the matcher *)
(* Hidpp20Driver::feature_request passes to it.                           *)
READ_TIMEOUT_PER_ATTEMPT == 2000
SINGLE_READ_TIMEOUT == 500
HIDPP_SHORT_REPORT_ID == 16
HIDPP_LONG_REPORT_ID == 17
FeatureRequestAttempts == 3
MaxAttempts == 2
MaxChunks == 2

(* The distances between two inbound buffers, and the error codes and     *)
(* leading bytes the device sends.                                        *)
Gaps == {200, 700}
ErrorCodes == {2, 5}
InputReportIds == {1}

Min(a, b) == IF a <= b THEN a ELSE b

(* An inbound buffer: its leading byte and, for a HID++ report, whether   *)
(* it is the reply to the request, an error report for the request's      *)
(* device index and feature index, or a report of another conversation.   *)
Buffers ==
    [ lead : InputReportIds, body : {"input"}, code : {0} ]
    \cup [ lead : {HIDPP_SHORT_REPORT_ID, HIDPP_LONG_REPORT_ID},
           body : {"reply", "other"}, code : {0} ]
    \cup [ lead : {HIDPP_SHORT_REPORT_ID, HIDPP_LONG_REPORT_ID},
           body : {"error"}, code : ErrorCodes ]

EmptyBuf == [ lead |-> 0, body |-> "empty", code |-> 0 ]

(* The head of the inbound stream: the next buffer of the device node and *)
(* the time left until it arrives.                                        *)
Inbound == [ buf : Buffers, in : Gaps ]

(* HidppReport::hidpp20_error_code(dev_idx, feature_index).               *)
hidpp20_error_code(buf) ==
    IF buf.body = "error" THEN [ some |-> TRUE, code |-> buf.code ]
    ELSE [ some |-> FALSE, code |-> 0 ]

Matcher_noError(buf) ==
    IF buf.body = "reply"
    THEN [ some |-> TRUE, resp |-> "Ok", code |-> 0 ]
    ELSE [ some |-> FALSE, resp |-> "none", code |-> 0 ]

(* The matcher closure of feature_request. *)
Matcher(buf) ==
    IF hidpp20_error_code(buf).some
    THEN [ some |-> TRUE, resp |-> "HidppErr",
           code |-> hidpp20_error_code(buf).code ]
    ELSE IF buf.body = "reply"
         THEN [ some |-> TRUE, resp |-> "Ok", code |-> 0 ]
         ELSE [ some |-> FALSE, resp |-> "none", code |-> 0 ]

NoResp == [ some |-> FALSE, resp |-> "none", code |-> 0 ]

(* The matcher closures of try_probe_index and of the HID++ 1.0 register  *)
(* helpers: `if report.is_error() { return None; }`, then the reply.      *)
ProbeMatcher(buf) ==
    IF buf.body = "error" THEN NoResp
    ELSE IF buf.body = "reply"
         THEN [ some |-> TRUE, resp |-> "Ok", code |-> 0 ]
         ELSE NoResp

(* The callers of DeviceIo::request that are followed, the attempts they  *)
(* pass and the matcher they pass.                                        *)
ProbeAttempts == 2
RegisterAttempts == 3
ErrorIgnoringCallers == {"try_probe_index", "get_register"}

MatcherOf(fn, buf) ==
    IF fn \in ErrorIgnoringCallers THEN ProbeMatcher(buf) ELSE Matcher(buf)
NoFailure == [ op |-> "none", writes |-> 0 ]

IsNoise_none(buf) == FALSE

(* The "skip non-HID++ input reports" test of the read loop. *)
IsNoise(buf) ==
    buf.lead # HIDPP_SHORT_REPORT_ID /\ buf.lead # HIDPP_LONG_REPORT_ID

(* A call of DeviceIo::request by caller c[1] with c[2] attempts, before  *)
(* its first write.                                                       *)
IoCallsOf(callers) ==
    { [ pc |-> "attempt", fn |-> c[1], max_attempts |-> c[2], attempt |-> 1,
        remaining |-> 0, buf |-> EmptyBuf, next |-> nx,
        result |-> "none", resp |-> NoResp, attempts |-> 0,
        writes |-> 0, faults |-> 0, skipped |-> 0, rejected |-> FALSE,
        ended |-> "none", failure |-> NoFailure, errorAt |-> 0 ] :
      c \in callers, nx \in Inbound }

(* The calls with the matcher of feature_request, which passes 3 attempts. *)
IoCalls ==
    IoCallsOf(({"request"} \X (0 .. MaxAttempts))
              \cup {<<"feature_request", FeatureRequestAttempts>>})

(* The calls of try_probe_index and of the HID++ 1.0 register helpers. *)
ProbeCalls ==
    IoCallsOf({<<"try_probe_index", ProbeAttempts>>,
               <<"get_register", RegisterAttempts>>})

InitIo ==
    /\ InitDaemon({FactoryDevice})
    /\ asus = NoCall
    /\ io \in IoCalls
    /\ mem = NoCall

InitProbe ==
    /\ InitDaemon({FactoryDevice})
    /\ asus = NoCall
    /\ io \in ProbeCalls
    /\ mem = NoCall

IoUnchanged ==
    UNCHANGED << info, registered, ipcVars, actorPc, queue, sendersAlive,
                 serverPc, cur, frame, drv, dev, faults, callerVars, histVars,
                 asus, mem >>

(* The first transport failure of the call and the writes made by then. *)
Failed(op) ==
    IF io.failure.op = "none" THEN [ op |-> op, writes |-> io.writes ]
    ELSE io.failure

(* DriverError::Timeout { attempts: max_attempts }. *)
TimeoutError(max_attempts) == max_attempts

(* for attempt in 1..=max_attempts: the loop is over. *)
Io_exhausted ==
    /\ io.pc = "attempt"
    /\ io.attempt > io.max_attempts
    /\ io' = [ io EXCEPT !.pc = "done", !.result = "Timeout",
                         !.attempts = TimeoutError(io.max_attempts) ]
    /\ IoUnchanged

(* self.write_report(report).await?; the deadline and the buffer are set. *)
Io_write ==
    /\ io.pc = "attempt"
    /\ io.attempt <= io.max_attempts
    /\ \/ io' = [ io EXCEPT !.pc = "read", !.writes = @ + 1,
                            !.remaining = READ_TIMEOUT_PER_ATTEMPT,
                            !.buf = EmptyBuf, !.skipped = 0,
                            !.rejected = FALSE, !.ended = "none" ]
       \/ /\ io.faults < MaxFaults
          /\ io' = [ io EXCEPT !.pc = "done", !.result = "Io",
                               !.faults = @ + 1, !.failure = Failed("write") ]
    /\ IoUnchanged

Break_stay(how) == [ io EXCEPT !.ended = how ]

(* The attempt ends: the next iteration of the for loop. *)
Break(how) == [ io EXCEPT !.pc = "attempt", !.attempt = @ + 1, !.ended = how ]

(* remaining.is_zero(): the read deadline expired. *)
Io_deadline ==
    /\ io.pc = "read"
    /\ io.remaining = 0
    /\ io' = Break("deadline")
    /\ IoUnchanged

ReadTimeout == Min(io.remaining, SINGLE_READ_TIMEOUT)

(* The write that had been made when the matcher was first handed an     *)
(* error report.                                                          *)
ErrorSeen(buf, c) ==
    IF buf.body = "error" /\ c.errorAt = 0 THEN c.writes ELSE c.errorAt

(* What the loop does with a buffer read_report returned. *)
AfterRead(buf, c) ==
    IF IsNoise(buf)
    THEN [ c EXCEPT !.skipped = @ + 1 ]
    ELSE IF MatcherOf(c.fn, buf).some
         THEN [ c EXCEPT !.pc = "done", !.result = "Ok",
                         !.resp = MatcherOf(c.fn, buf),
                         !.errorAt = ErrorSeen(buf, c) ]
         ELSE [ c EXCEPT !.rejected = TRUE, !.errorAt = ErrorSeen(buf, c) ]

(* Ok(Ok(n)): the next inbound buffer arrives before the read times out. *)
Io_read_buffer ==
    /\ io.pc = "read"
    /\ io.remaining > 0
    /\ io.next.in <= ReadTimeout
    /\ \E nx \in Inbound :
         io' = AfterRead(io.next.buf,
                         [ io EXCEPT !.buf = io.next.buf, !.next = nx,
                                     !.remaining = @ - io.next.in ])
    /\ IoUnchanged

(* Ok(Err(e)): the read fails; it is logged and the attempt ends. *)
Io_read_error ==
    /\ io.pc = "read"
    /\ io.remaining > 0
    /\ io.faults < MaxFaults
    /\ io' = [ Break("error") EXCEPT !.faults = @ + 1,
                                     !.failure = Failed("read") ]
    /\ IoUnchanged

(* Err(_elapsed): nothing arrived within the single-read timeout. *)
Io_read_elapsed ==
    /\ io.pc = "read"
    /\ io.remaining > 0
    /\ io.next.in >= ReadTimeout
    /\ io' = [ Break("elapsed") EXCEPT
                 !.remaining = @ - ReadTimeout,
                 !.next = [ io.next EXCEPT !.in = @ - ReadTimeout ] ]
    /\ IoUnchanged

(* What feature_request makes of the result of io.request. *)
feature_request(c) ==
    IF c.result = "Ok"
    THEN IF c.resp.resp = "HidppErr"
         THEN [ ok |-> FALSE, err |-> "HidppErr", code |-> c.resp.code ]
         ELSE [ ok |-> TRUE, err |-> "none", code |-> 0 ]
    ELSE [ ok |-> FALSE, err |-> c.result, code |-> 0 ]

NextIo ==
    \/ Io_exhausted
    \/ Io_write
    \/ Io_deadline
    \/ Io_read_buffer
    \/ Io_read_error
    \/ Io_read_elapsed

SpecIo == InitIo /\ [][NextIo]_vars

SpecProbe == InitProbe /\ [][NextIo]_vars

(* The runtime keeps polling the future of the call until it returns. *)
SpecIoFair == SpecIo /\ WF_vars(NextIo)

(* ------------- hidpp20.rs: write_sector, write_sector_once ------------ *)
WRITE_RETRIES == 3
BackoffStepMs == 15
ChunkSize == 16

(* data.chunks(16): the number of chunks and the length of chunk i. *)
NumChunks(len) == (len + ChunkSize - 1) \div ChunkSize
ChunkLen(len, i) == Min(ChunkSize, len - ChunkSize * i)

(* The requests of one write_sector_once call that meets no failure. *)
WholeAttempt(len) ==
    << <<"MEMORY_ADDR_WRITE", 0, len>> >>
    \o [ i \in 1 .. NumChunks(len) |-> <<"MEMORY_WRITE", i - 1, ChunkLen(len, i - 1)>> ]
    \o << <<"MEMORY_WRITE_END", 0, 0>> >>

(* A write_sector call for a sector image of len bytes, before its first  *)
(* request. log holds the requests of the running attempt, errs the step  *)
(* at which each failed attempt stopped, sleeps the pauses taken.         *)
WriteCalls ==
    { [ pc |-> "addr", fn |-> "write_sector", len |-> l, attempt |-> 0,
        ci |-> 0, log |-> <<>>, errs |-> <<>>, sleeps |-> <<>>,
        result |-> "none" ] : l \in 1 .. (ChunkSize * MaxChunks) }

InitWrite ==
    /\ InitDaemon({FactoryDevice})
    /\ asus = NoCall
    /\ io = NoCall
    /\ mem \in WriteCalls

MemUnchanged ==
    UNCHANGED << info, registered, ipcVars, actorPc, queue, sendersAlive,
                 serverPc, cur, frame, drv, dev, faults, callerVars, histVars,
                 asus, io >>

Backoff_constant(attempt) == BackoffStepMs

(* sleep(Duration::from_millis(15 * (attempt as u64 + 1))) *)
Backoff(attempt) == BackoffStepMs * (attempt + 1)

(* A feature_request of write_sector_once failed: `?` leaves the attempt; *)
(* write_sector sleeps and retries, or returns the error on the last one. *)
AttemptFailed(c, req) ==
    LET c1 == [c EXCEPT !.log = Append(@, req),
                        !.errs = Append(@, <<c.attempt + 1, req[1]>>)]
    IN IF c.attempt + 1 < WRITE_RETRIES
       THEN [c1 EXCEPT !.pc = "sleep"]
       ELSE [c1 EXCEPT !.pc = "done", !.result = "Err"]

(* Step 1: the address and length announcement. *)
Write_start ==
    /\ mem.pc = "addr"
    /\ LET req == <<"MEMORY_ADDR_WRITE", 0, mem.len>>
       IN \E ok \in BOOLEAN :
            mem' = IF ok
                   THEN [mem EXCEPT !.pc = "chunk", !.ci = 0,
                                    !.log = Append(@, req)]
                   ELSE AttemptFailed(mem, req)
    /\ MemUnchanged

(* Step 2: one 16-byte chunk, zero padded. *)
Write_chunk ==
    /\ mem.pc = "chunk"
    /\ LET req == <<"MEMORY_WRITE", mem.ci, ChunkLen(mem.len, mem.ci)>>
       IN \E ok \in BOOLEAN :
            mem' = IF ok
                   THEN [mem EXCEPT
                           !.pc = IF mem.ci + 1 = NumChunks(mem.len)
                                  THEN "end" ELSE "chunk",
                           !.ci = @ + 1,
                           !.log = Append(@, req)]
                   ELSE AttemptFailed(mem, req)
    /\ MemUnchanged

(* Step 3: the end marker; write_sector returns Ok(()) when it succeeds. *)
Write_end ==
    /\ mem.pc = "end"
    /\ LET req == <<"MEMORY_WRITE_END", 0, 0>>
       IN \E ok \in BOOLEAN :
            mem' = IF ok
                   THEN [mem EXCEPT !.pc = "done", !.result = "Ok",
                                    !.log = Append(@, req)]
                   ELSE AttemptFailed(mem, req)
    /\ MemUnchanged

(* The backoff sleep; the for loop then calls write_sector_once again. *)
Write_sleep ==
    /\ mem.pc = "sleep"
    /\ mem' = [mem EXCEPT !.pc = "addr", !.attempt = @ + 1, !.ci = 0,
                          !.log = <<>>,
                          !.sleeps = Append(@, Backoff(mem.attempt))]
    /\ MemUnchanged

NextWrite ==
    \/ Write_start
    \/ Write_chunk
    \/ Write_end
    \/ Write_sleep

SpecWrite == InitWrite /\ [][NextWrite]_vars

(* ---------------------- hidpp20.rs: read_sector ----------------------- *)
MaxSectorSize == 36

(* u16::saturating_sub *)
SaturatingSub(a, b) == IF a >= b THEN a - b ELSE 0

(* A read_sector call for size bytes at read_offset of a sector of         *)
(* sector_size bytes. A byte of the sector stands for its own position;    *)
(* reads holds the offset of every MEMORY_READ request issued.             *)
ReadCalls ==
    { [ pc |-> "loop", fn |-> "read_sector", sector_size |-> ss,
        read_offset |-> ro, size |-> sz, current_offset |-> ro,
        end_offset |-> ro + sz, data |-> <<>>, reads |-> <<>>,
        result |-> "none" ] :
      ss \in 1 .. MaxSectorSize, ro \in 0 .. MaxSectorSize,
      sz \in 1 .. MaxSectorSize }

InitRead ==
    /\ InitDaemon({FactoryDevice})
    /\ asus = NoCall
    /\ io = NoCall
    /\ mem \in { c \in ReadCalls : c.end_offset <= c.sector_size }

(* The 16 bytes the device returns for a MEMORY_READ at offset. *)
MemoryRead(offset) == [ i \in 1 .. ChunkSize |-> offset + i - 1 ]

(* Firmware returns ERR_INVALID_ARGUMENT when a read would extend beyond  *)
(* the sector.                                                            *)
ReadAccepted(c, offset) == offset + ChunkSize <= c.sector_size

(* Rewind to end_offset - 16 for the final partial chunk. *)
EffectiveOffset(c, chunk_size) ==
    IF chunk_size < ChunkSize
    THEN SaturatingSub(c.end_offset, ChunkSize)
    ELSE c.current_offset

(* One pass of the while loop: a MEMORY_READ and the bytes kept from it;  *)
(* a failed request leaves read_sector through `?`.                       *)
Read_chunk ==
    /\ mem.pc = "loop"
    /\ mem.current_offset < mem.end_offset
    /\ LET chunk_size == Min(mem.end_offset - mem.current_offset, ChunkSize)
           effective_offset == EffectiveOffset(mem, chunk_size)
           response == MemoryRead(effective_offset)
           kept == IF effective_offset = mem.current_offset
                   THEN SubSeq(response, 1, chunk_size)
                   ELSE SubSeq(response, ChunkSize - chunk_size + 1, ChunkSize)
       IN \E ok \in BOOLEAN :
            mem' = IF ok /\ ReadAccepted(mem, effective_offset)
                   THEN [mem EXCEPT
                           !.reads = Append(@, effective_offset),
                           !.data = @ \o kept,
                           !.current_offset = @ + chunk_size]
                   ELSE [mem EXCEPT
                           !.reads = Append(@, effective_offset),
                           !.pc = "done", !.result = "Err"]
    /\ MemUnchanged

(* The loop ends and read_sector returns Ok(result). *)
Read_return ==
    /\ mem.pc = "loop"
    /\ mem.current_offset >= mem.end_offset
    /\ mem' = [mem EXCEPT !.pc = "done", !.result = "Ok"]
    /\ MemUnchanged

NextRead ==
    \/ Read_chunk
    \/ Read_return

SpecRead == InitRead /\ [][NextRead]_vars

(* ------------- hidpp20.rs: sector checksum (verify_sector_crc) -------- *)
MaxPayloadLen == 3
PayloadBytes == {0, 1, 128, 165, 255}

RECURSIVE Xor(_, _, _)
(* a ^ b on n-bit unsigned integers. *)
Xor(a, b, n) ==
    IF n = 0 THEN 0
    ELSE (IF (a % 2) # (b % 2) THEN 1 ELSE 0) + 2 * Xor(a \div 2, b \div 2, n - 1)

RECURSIVE CrcBits(_, _, _)
(* CRC-CCITT over the n low bits of byte, most significant bit first:     *)
(* polynomial 0x1021 on a 16-bit register.                                *)
CrcBits(crc, byte, n) ==
    IF n = 0 THEN crc
    ELSE LET bit == (byte \div (2 ^ (n - 1))) % 2
             top == crc \div 32768
             shifted == (crc * 2) % 65536
             next == IF top # bit THEN Xor(shifted, 4129, 16) ELSE shifted
         IN CrcBits(next, byte, n - 1)

RECURSIVE CrcFrom(_, _)
CrcFrom(crc, data) ==
    IF data = <<>> THEN crc
    ELSE CrcFrom(CrcBits(crc, Head(data), 8), Tail(data))

(* hidpp::compute_ccitt_crc: CRC-CCITT seeded with 0xFFFF. *)
compute_ccitt_crc(data) == CrcFrom(65535, data)

(* u16::to_be_bytes *)
to_be_bytes(v) == << v \div 256, v % 256 >>

StoredCrc_le(data) == data[Len(data) - 1] + 256 * data[Len(data)]

(* u16::from_be_bytes([data[crc_offset], data[crc_offset + 1]]) *)
StoredCrc(data) == 256 * data[Len(data) - 1] + data[Len(data)]

verify_sector_crc(data) ==
    IF Len(data) < 2 THEN FALSE
    ELSE compute_ccitt_crc(SubSeq(data, 1, Len(data) - 2)) = StoredCrc(data)

(* A sector image whose payload is given and whose last two bytes are not *)
(* yet the checksum; flipped is the payload bit changed after storing.    *)
CrcCalls ==
    { [ pc |-> "patched", fn |-> "verify_sector_crc",
        sector |-> pl \o <<255, 255>>, flipped |-> -1, verified |-> "none" ] :
      pl \in UNION { [1 .. n -> PayloadBytes] : n \in 0 .. MaxPayloadLen } }

InitCrc ==
    /\ InitDaemon({FactoryDevice})
    /\ asus = NoCall
    /\ io = NoCall
    /\ mem \in CrcCalls

(* commit, step 5: the checksum of all but the last two bytes is stored   *)
(* big-endian in the last two bytes.                                      *)
Crc_store ==
    /\ mem.pc = "patched"
    /\ LET crc_offset == Len(mem.sector) - 2
           payload == SubSeq(mem.sector, 1, crc_offset)
       IN mem' = [mem EXCEPT
                    !.pc = "stored",
                    !.sector = payload \o to_be_bytes(compute_ccitt_crc(payload))]
    /\ MemUnchanged

(* One bit of the payload changes in the device's memory. *)
Crc_flip ==
    /\ mem.pc = "stored"
    /\ mem.flipped = -1
    /\ \E b \in 0 .. (8 * (Len(mem.sector) - 2) - 1) :
         mem' = [mem EXCEPT
                   !.flipped = b,
                   !.sector[(b \div 8) + 1] = Xor(@, 2 ^ (b % 8), 8)]
    /\ MemUnchanged

(* load_profiles reads the sector back and validates it. *)
Crc_verify ==
    /\ mem.pc = "stored"
    /\ mem' = [mem EXCEPT !.pc = "verified",
                          !.verified = verify_sector_crc(mem.sector)]
    /\ MemUnchanged

NextCrc ==
    \/ Crc_store
    \/ Crc_flip
    \/ Crc_verify

SpecCrc == InitCrc /\ [][NextCrc]_vars

(* --------------- hidpp20.rs: Hidpp20ButtonBinding ---------------------- *)
MaxMappingValue == 20
ActionTypes == {"None", "Button", "Key", "Special", "Macro", "Unknown"}

(* u16::to_le_bytes and u16::from_be_bytes *)
to_le_bytes(v) == << v % 256, v \div 256 >>
from_be_bytes(b) == 256 * b[1] + b[2]

RECURSIVE trailing_zeros(_)
(* u16::trailing_zeros of a mask that is not 0. *)
trailing_zeros(mask) ==
    IF mask % 2 = 1 THEN 0 ELSE 1 + trailing_zeros(mask \div 2)

(* Hidpp20ButtonBinding::from_action followed by into_bytes: type,        *)
(* subtype and the two bytes of control_id_or_macro_id.                   *)
from_action(action, mapping_value) ==
    LET control_id == mapping_value % 65536
    IN CASE action = "Macro" ->
              << "MACRO", 0 >> \o to_le_bytes(control_id)
         [] action = "Button" ->
              LET mask == IF mapping_value > 0 /\ mapping_value <= 16
                          THEN 2 ^ (mapping_value - 1) ELSE 0
              IN << "HID", "MOUSE" >> \o to_be_bytes(mask)
         [] action = "Key" ->
              << "HID", "KEYBOARD" >> \o to_le_bytes(control_id)
         [] action = "Special" ->
              << "SPECIAL", 0 >> \o to_le_bytes(control_id)
         [] OTHER ->
              << "DISABLED", 0 >> \o to_le_bytes(0)

(* Hidpp20ButtonBinding::from_bytes followed by to_action. *)
to_action(bytes) ==
    CASE bytes[1] = "MACRO" -> "Macro"
      [] bytes[1] = "HID" ->
           (CASE bytes[2] = "MOUSE" -> "Button"
              [] bytes[2] = "KEYBOARD" -> "Key"
              [] bytes[2] = "CONSUMER" -> "Special"
              [] OTHER -> "Unknown")
      [] bytes[1] = "SPECIAL" -> "Special"
      [] bytes[1] = "DISABLED" -> "None"
      [] OTHER -> "Unknown"

MaskOf_le(bytes) == bytes[3] + 256 * bytes[4]

(* let mask = u16::from_be_bytes(binding.control_id_or_macro_id) *)
MaskOf(bytes) == from_be_bytes(SubSeq(bytes, 3, 4))

(* The mapping value load_profiles derives from the four bytes. *)
LoadedMapping(bytes) ==
    IF bytes[1] = "HID" /\ bytes[2] = "MOUSE"
    THEN IF MaskOf(bytes) > 0 THEN trailing_zeros(MaskOf(bytes)) + 1 ELSE 0
    ELSE from_be_bytes(SubSeq(bytes, 3, 4))

(* A button of a dirty profile with its staged action and mapping value. *)
ButtonCalls ==
    { [ pc |-> "staged", fn |-> "button", action_type |-> a,
        mapping_value |-> v, bytes |-> <<>>, loaded_action |-> "none",
        loaded_value |-> -1 ] :
      a \in ActionTypes, v \in 0 .. MaxMappingValue }

InitButton ==
    /\ InitDaemon({FactoryDevice})
    /\ asus = NoCall
    /\ io = NoCall
    /\ mem \in ButtonCalls

(* commit, step 4: the binding is written into the sector image. *)
Button_encode ==
    /\ mem.pc = "staged"
    /\ mem' = [mem EXCEPT
                 !.pc = "stored",
                 !.bytes = from_action(mem.action_type, mem.mapping_value)]
    /\ MemUnchanged

(* load_profiles reads the binding back from the sector. *)
Button_decode ==
    /\ mem.pc = "stored"
    /\ mem' = [mem EXCEPT !.pc = "loaded",
                          !.loaded_action = to_action(mem.bytes),
                          !.loaded_value = LoadedMapping(mem.bytes)]
    /\ MemUnchanged

NextButton ==
    \/ Button_encode
    \/ Button_decode

SpecButton == InitButton /\ [][NextButton]_vars

(* --------- hidpp20.rs: get_feature_index, discover_features ----------- *)
Range1(q) == { q[i] : i \in 1 .. Len(q) }
MaxFeatureIndex == 2

(* FEATURE_QUERIES, named by the FeatureMap field each page is stored in. *)
FEATURE_QUERIES ==
    << "adjustable_dpi", "special_keys", "onboard_profiles",
       "color_led_effects", "rgb_effects", "report_rate", "device_name" >>

(* What a root-feature query can meet: a Long or Short reply carrying an  *)
(* index, an error report, or no matching reply within the attempts.      *)
RootReplies ==
    [ kind : {"Long", "Short"}, index : 0 .. MaxFeatureIndex ]
    \cup { [ kind |-> "Error", index |-> 0 ], [ kind |-> "Timeout", index |-> 0 ] }

FeatureIndexOf_raw(index) == index

(* Some(if index == 0 { None } else { Some(index) }) *)
(* An Option<u8> is -1 for None and the index for Some(index).            *)
FeatureIndexOf(index) == IF index = 0 THEN -1 ELSE index

(* get_feature_index: Ok(None), Ok(Some(index)) or Err. *)
get_feature_index(r) ==
    CASE r.kind = "Timeout" -> << "Err", -1 >>
      [] r.kind = "Error" -> << "Ok", -1 >>
      [] OTHER -> << "Ok", FeatureIndexOf(r.index) >>

(* A discover_features call on a fresh FeatureMap; zeroed holds the pages *)
(* whose query was answered with index 0.                                 *)
DiscoverCalls ==
    { [ pc |-> "query", fn |-> "discover_features", qi |-> 1,
        features |-> [ f \in Range1(FEATURE_QUERIES) |-> -1 ],
        zeroed |-> {} ] }

InitDiscover ==
    /\ InitDaemon({FactoryDevice})
    /\ asus = NoCall
    /\ io = NoCall
    /\ mem \in DiscoverCalls

(* One pass of the loop over FEATURE_QUERIES: only Ok(Some(idx)) inserts. *)
Discover_query ==
    /\ mem.pc = "query"
    /\ mem.qi <= Len(FEATURE_QUERIES)
    /\ \E r \in RootReplies :
         LET page == FEATURE_QUERIES[mem.qi]
             res == get_feature_index(r)
         IN mem' = [mem EXCEPT
                      !.qi = @ + 1,
                      !.zeroed = IF r.kind \in {"Long", "Short"} /\ r.index = 0
                                 THEN @ \cup {page} ELSE @,
                      !.features[page] =
                          IF res[1] = "Ok" /\ res[2] # -1 THEN res[2] ELSE @]
    /\ MemUnchanged

(* The loop is over and discover_features returns Ok(()). *)
Discover_return ==
    /\ mem.pc = "query"
    /\ mem.qi > Len(FEATURE_QUERIES)
    /\ mem' = [mem EXCEPT !.pc = "done"]
    /\ MemUnchanged

NextDiscover ==
    \/ Discover_query
    \/ Discover_return

SpecDiscover == InitDiscover /\ [][NextDiscover]_vars

(* ------------------ hidpp.rs: HidppReport, builders -------------------- *)
MaxRawLen == 21
REPORT_ID_SHORT == 16
REPORT_ID_LONG == 17
ShortReportLen == 7
LongReportLen == 20
LongParamLen == 16

ShortParams_shifted(buf) == SubSeq(buf, 5, 7)

(* params: [buf[3], buf[4], buf[5]], counted from 0 *)
ShortParams(buf) == SubSeq(buf, 4, 6)

(* HidppReport::parse: None, Short or Long with the fields of the report. *)
parse(buf) ==
    IF Len(buf) < ShortReportLen THEN [ kind |-> "None" ]
    ELSE IF buf[1] = REPORT_ID_SHORT
         THEN [ kind |-> "Short", device_index |-> buf[2], sub_id |-> buf[3],
                params |-> ShortParams(buf) ]
    ELSE IF buf[1] = REPORT_ID_LONG /\ Len(buf) >= LongReportLen
         THEN [ kind |-> "Long", device_index |-> buf[2], sub_id |-> buf[3],
                address |-> buf[4], params |-> SubSeq(buf, 5, 20) ]
    ELSE [ kind |-> "None" ]

build_short_report(device_index, sub_id, params) ==
    << REPORT_ID_SHORT, device_index, sub_id, params[1], params[2], params[3], 0 >>

(* buf[3] = (function << 4) | (sw_id & 0x0F); the params are copied into  *)
(* a zeroed buffer, at most 16 of them.                                   *)
build_hidpp20_request(device_index, feature_index, function, sw_id, params) ==
    LET copy_len == Min(Len(params), LongParamLen)
    IN << REPORT_ID_LONG, device_index, feature_index,
          ((function * 16) % 256) + (sw_id % 16) >>
       \o [ i \in 1 .. LongParamLen |-> IF i <= copy_len THEN params[i] ELSE 0 ]

(* Byte strings of a given length whose bytes differ by position. *)
Bytes(seed, n) == [ i \in 1 .. n |-> (seed + 3 * i) % 256 ]

(* The buffers handed to parse: raw ones of every length and leading     *)
(* byte, and the arguments of the two builders.                          *)
ParseCalls ==
    LET call(origin, args, buf) ==
          [ pc |-> IF origin = "raw" THEN "buf" ELSE "args", fn |-> "parse",
            origin |-> origin, args |-> args, buf |-> buf,
            report |-> [ kind |-> "none" ] ]
    IN { call("raw", <<>>, <<lead>> \o Bytes(seed, n)) :
            lead \in {1, REPORT_ID_SHORT, REPORT_ID_LONG, 18},
            seed \in {0, 140}, n \in 0 .. (MaxRawLen - 1) }
       \cup { call("raw", <<>>, <<>>) }
       \cup { call("short", << d, sid, Bytes(seed, 3) >>, <<>>) :
            d \in {1, 255}, sid \in {0, 129, 143}, seed \in {0, 140} }
       \cup { call("long", << d, f, fun, 10, Bytes(seed, n) >>, <<>>) :
            d \in {1, 255}, f \in {0, 5}, fun \in {0, 15},
            seed \in {0, 140}, n \in 0 .. LongParamLen }

InitParse ==
    /\ InitDaemon({FactoryDevice})
    /\ asus = NoCall
    /\ io = NoCall
    /\ mem \in ParseCalls

(* A request is built by one of the two builders. *)
Parse_build ==
    /\ mem.pc = "args"
    /\ mem' = [mem EXCEPT
                 !.pc = "buf",
                 !.buf = IF mem.origin = "short"
                         THEN build_short_report(mem.args[1], mem.args[2],
                                                 mem.args[3])
                         ELSE build_hidpp20_request(mem.args[1], mem.args[2],
                                  mem.args[3], mem.args[4], mem.args[5])]
    /\ MemUnchanged

(* HidppReport::parse(buf) *)
Parse_parse ==
    /\ mem.pc = "buf"
    /\ mem' = [mem EXCEPT !.pc = "parsed", !.report = parse(mem.buf)]
    /\ MemUnchanged

NextParse ==
    \/ Parse_build
    \/ Parse_parse

SpecParse == InitParse /\ [][NextParse]_vars

(* ------------- hidpp20.rs: the profile directory (sector 0) ------------ *)
(* The sector addresses a directory entry can hold: 0, the sectors after  *)
(* the directory, and the end marker 0xFFFF.                              *)
DirAddrs == (0 .. (NumProfiles + 1)) \cup {65535}

(* The first directory entry that holds the end marker, or NumProfiles.   *)
DirEnd(dir) ==
    IF \E i \in Profiles : dir[i] = 65535
    THEN CHOOSE i \in Profiles :
            dir[i] = 65535 /\ \A j \in Profiles : dir[j] = 65535 => i <= j
    ELSE NumProfiles

(* profile_addrs of load_profiles: sector = index + 1, overridden by the  *)
(* directory entries before the end marker that are not 0, when the       *)
(* directory checksum is right.                                           *)
ProfileAddrs(dir, root_crc_ok) ==
    [ i \in Profiles |->
        IF root_crc_ok /\ i < DirEnd(dir) /\ dir[i] # 0 THEN dir[i] ELSE i + 1 ]

(* let addr = (profile.index + 1) as u16 *)
CommitAddr(c, index) == index + 1

(* A device whose directory holds dir, followed from load_profiles to the *)
(* profile loop of one commit; 0 stands for no sector.                    *)
DirCalls ==
    { [ pc |-> "root", fn |-> "directory", dir |-> d, root_crc_ok |-> ok,
        profile_addrs |-> [ i \in Profiles |-> 0 ], i |-> 0,
        readFrom |-> [ i \in Profiles |-> 0 ],
        wroteTo |-> [ i \in Profiles |-> 0 ] ] :
      d \in [Profiles -> DirAddrs], ok \in BOOLEAN }

InitDir ==
    /\ InitDaemon({FactoryDevice})
    /\ asus = NoCall
    /\ io = NoCall
    /\ mem \in DirCalls

(* load_profiles reads sector 0 and builds profile_addrs. *)
Dir_load_root ==
    /\ mem.pc = "root"
    /\ mem' = [mem EXCEPT !.pc = "read", !.i = 0,
                 !.profile_addrs = ProfileAddrs(mem.dir, mem.root_crc_ok)]
    /\ MemUnchanged

(* load_profiles, loop over the profiles: read_sector(addr). *)
Dir_load_profile ==
    /\ mem.pc = "read"
    /\ LET addr == mem.profile_addrs[mem.i]
       IN mem' = [mem EXCEPT
                    !.readFrom[mem.i] =
                        IF addr = 65535 \/ addr = 0 THEN 0 ELSE addr,
                    !.i = IF mem.i + 1 = NumProfiles THEN 0 ELSE mem.i + 1,
                    !.pc = IF mem.i + 1 = NumProfiles THEN "commit" ELSE "read"]
    /\ MemUnchanged

(* commit, loop over info.profiles: a profile that needs writing goes to  *)
(* write_sector(addr).                                                    *)
Dir_commit_profile ==
    /\ mem.pc = "commit"
    /\ \E needed \in BOOLEAN :
         mem' = [mem EXCEPT
                   !.wroteTo[mem.i] =
                       IF needed THEN CommitAddr(mem, mem.i) ELSE 0,
                   !.i = IF mem.i + 1 = NumProfiles THEN 0 ELSE mem.i + 1,
                   !.pc = IF mem.i + 1 = NumProfiles THEN "done" ELSE "commit"]
    /\ MemUnchanged

NextDir ==
    \/ Dir_load_root
    \/ Dir_load_profile
    \/ Dir_commit_profile

SpecDir == InitDir /\ [][NextDir]_vars

(* ------------ hidpp20.rs: feature_request, reply matching -------------- *)
MaxFunction == 2
SW_ID == 4

(* Steps 2 and 3 of the matcher closure of feature_request, for a report  *)
(* that is not an error report: a Long or Short report is accepted when   *)
(* its device index and sub-id are those of the request.                  *)
ReplyMatcher(buf, dev_idx, feature_index) ==
    LET report == parse(buf)
    IN IF report.kind = "None" THEN [ some |-> FALSE, params |-> <<>> ]
       ELSE IF report.device_index = dev_idx /\ report.sub_id = feature_index
            THEN [ some |-> TRUE,
                   params |-> IF report.kind = "Long" THEN report.params
                              ELSE [ i \in 1 .. LongParamLen |->
                                       IF i <= 3 THEN report.params[i] ELSE 0 ] ]
            ELSE [ some |-> FALSE, params |-> <<>> ]

(* A feature_request whose next inbound report is the device's reply to a *)
(* request with the header hdr: the device echoes device index, feature   *)
(* index and the function/software-id byte.                               *)
MatchCalls ==
    LET hdrs == [ dev : {1, 255}, feature : {5, 9},
                  function : 0 .. MaxFunction, sw_id : {SW_ID, 10} ]
    IN { [ pc |-> "build", fn |-> "feature_request", args |-> a, earlier |-> e,
           short |-> sh, request |-> <<>>, inbound |-> <<>>,
           resp |-> [ some |-> FALSE, params |-> <<>> ] ] :
         a \in { h \in hdrs : h.sw_id = SW_ID }, e \in hdrs, sh \in BOOLEAN }

InitMatch ==
    /\ InitDaemon({FactoryDevice})
    /\ asus = NoCall
    /\ io = NoCall
    /\ mem \in MatchCalls

(* The request is built and written; the device's reply to the earlier    *)
(* request becomes readable.                                              *)
Match_write ==
    /\ mem.pc = "build"
    /\ LET a == mem.args
           e == mem.earlier
           echo == build_hidpp20_request(e.dev, e.feature, e.function,
                                         e.sw_id, Bytes(7, LongParamLen))
       IN mem' = [mem EXCEPT
                    !.pc = "read",
                    !.request = build_hidpp20_request(a.dev, a.feature,
                                    a.function, SW_ID, <<>>),
                    !.inbound = IF mem.short
                                THEN build_short_report(e.dev, e.feature,
                                        SubSeq(echo, 4, 6))
                                ELSE echo]
    /\ MemUnchanged

(* DeviceIo::request reads the report and asks the matcher. *)
Match_read ==
    /\ mem.pc = "read"
    /\ mem' = [mem EXCEPT
                 !.pc = "matched",
                 !.resp = ReplyMatcher(mem.inbound, mem.args.dev,
                                       mem.args.feature)]
    /\ MemUnchanged

NextMatch ==
    \/ Match_write
    \/ Match_read

SpecMatch == InitMatch /\ [][NextMatch]_vars

(* ============================ properties ============================== *)
Range(q) == { q[i] : i \in 1 .. Len(q) }
InCommit == actorPc \in {"dpi", "rate", "led", "host", "sector", "dir",
                         "onboard", "finish"}
Idle == ~InCommit
ConfigWrites == {"dpi", "rate", "led", "sector", "dir"}

(* C1: hardware operations of one actor never overlap: at most one Commit  *)
(* message has transport I/O begun and not yet finished, and it is the one *)
(* the actor is handling; no I/O of the next begins before its reply.      *)
C1_NoOverlappingHardwareOps ==
    /\ Cardinality(ioOpen) <= 1
    /\ ioOpen # {} => (InCommit /\ ioOpen = {cur})

(* A second commit() is queued while the first is in the middle of its I/O. *)
C1_Witness ==
    /\ ioOpen # {}
    /\ actorPc = "sector"
    /\ \E i \in 1 .. Len(queue) : queue[i].type = "Commit"

(* C2: messages are handled in the order they were enqueued: the commits   *)
(* started so far are a prefix of the enqueue order, and every commit      *)
(* before the last started one has had its reply sent.                     *)
C2_FifoHandling ==
    /\ Len(started) <= Len(enqueued)
    /\ \A i \in 1 .. Len(started) : started[i] = enqueued[i]
    /\ \A i \in 1 .. Len(started) - 1 : replySends[started[i]] = 1

(* Two requests were queued together and the second is now being handled. *)
C2_Witness ==
    /\ Len(started) = 2
    /\ InCommit
    /\ replySends[started[1]] = 1
    /\ callerPc[started[1]] = "waiting"

(* C3: every dequeued Commit produces exactly one reply, on its own        *)
(* channel, carrying the result of the driver.commit run for that message. *)
C3_OneReplyOwnResult ==
    \A id \in Requests :
       /\ replySends[id] <= 1
       /\ replySends[id] = 1 <=> reply[id] \in {"Ok", "Err"}
       /\ reply[id] \in {"Ok", "Err"} => reply[id] = drvResult[id]
       /\ callerResult[id] \in {"Ok", "Err"} => callerResult[id] = drvResult[id]
       /\ (id \in Range(started) /\ ~(InCommit /\ cur = id)) => replySends[id] = 1

(* Two callers got different results, each its own. *)
C3_Witness ==
    /\ MaxRequests >= 2
    /\ callerResult[1] = "Err" /\ drvResult[1] = "Err"
    /\ callerResult[2] = "Ok" /\ drvResult[2] = "Ok"

(* C4: once the actor dequeues Shutdown it exits and handles nothing more: *)
(* no Commit queued behind a Shutdown reaches driver.commit, and an exited *)
(* actor (after Shutdown or after the last sender is gone) stays exited.   *)
C4_ShutdownIsFinal ==
    [][ /\ (ShutdownQueued /\ ~ShutdownQueued') => actorPc' = "exited"
        /\ actorPc = "exited" =>
              (actorPc' = "exited" /\ started' = started
               /\ replySends' = replySends /\ ioOpen' = ioOpen)
        /\ Range(started') \cap afterShutdown' = {} ]_vars

(* A commit() queued behind the Shutdown was dropped unhandled. *)
C4_Witness ==
    /\ actorPc = "exited"
    /\ \E id \in afterShutdown :
         /\ id \notin Range(started)
         /\ callerResult[id] = "ErrDropped"

(* C5: a failing driver.commit is reported as one Err and nothing else     *)
(* happens: the actor is back at recv(), the shared DeviceInfo and the     *)
(* registration are untouched, the queue is kept.                          *)
C5_CommitFailureIsContained ==
    /\ [](\A id \in Requests :
            (callerPc[id] = "returned" /\ drvResult[id] = "Err")
               => callerResult[id] = "Err")
    /\ [][ (actorPc = "finish" /\ actorPc' # "finish"
            /\ CommitResult(frame) = "Err")
           => /\ reply'[cur] = "Err"
              /\ replySends'[cur] = 1
              /\ actorPc' = "recv"
              /\ info' = info
              /\ registered' = registered
              /\ queue' = queue ]_vars

(* After a failed commit a later commit() was dequeued and run. *)
C5_Witness ==
    /\ Len(started) = 2
    /\ drvResult[started[1]] = "Err"
    /\ callerResult[started[1]] = "Err"
    /\ drvResult[started[2]] = "Ok"
    /\ registered

(* What load_profiles reports, from a fresh record, for the device as it   *)
(* is now, every request answered.                                         *)
NoLoadFaults ==
    [ desc_ok |-> TRUE, root_ok |-> TRUE, sector_fail |-> {},
      dpi_ok |-> TRUE, rate_ok |-> TRUE, led_ok |-> TRUE ]

Reloaded ==
    load_profiles(DeviceInfo_from_entry, dev, Hidpp20Driver_new(dev.features),
                  NoLoadFaults).info

(* The latest commit() call, once its Commit message has been dequeued;  *)
(* 0 before that.                                                        *)
LastCall ==
    IF started # << >> /\ Len(started) = Len(enqueued)
    THEN started[Len(started)] ELSE 0

(* C6: a value staged through an IPC setter is the value the next commit   *)
(* writes: when resolution 1 of a profile was set to 3200 (resolution 0 at *)
(* 800) before commit() was called and that call returned Ok, every         *)
(* request acknowledged, the record handed to driver.commit holds 3200 for  *)
(* resolution 1, the device stores it, and a following load_profiles        *)
(* reports 3200 for resolution 1 and 800 for resolution 0.                  *)
C6_StagedValueIsCommitted ==
    \A p \in Profiles :
       ( /\ LastCall # 0
         /\ callerResult[LastCall] = "Ok"
         /\ faults = 0
         /\ objAtCall.res[p][1].dpi = 3200
         /\ objAtCall.res[p][0].dpi = 800 )
       => /\ infoAtCommit.profiles[p].resolutions[1].dpi = 3200
          /\ dev.features.onboard_profiles => dev.sectors[p].dpi[1] = 3200
          /\ Reloaded.profiles[p].resolutions[1].dpi = 3200
          /\ Reloaded.profiles[p].resolutions[0].dpi = 800

(* C7: every IPC-layer mutation of a profile, or of one of its             *)
(* resolutions, buttons or LEDs, sets is_dirty on that profile in the       *)
(* device's shared state.                                                   *)
C7_IpcMutationSetsDirty ==
    [][ \A p \in Profiles :
          ( /\ registered
            /\ \/ objProfile'[p] # objProfile[p]
               \/ objRes'[p] # objRes[p]
               \/ objBtn'[p] # objBtn[p]
               \/ objLed'[p] # objLed[p] )
          => info'.profiles[p].is_dirty ]_vars

(* The settings of profile p that the commit being handled transmitted. *)
Wrote(p) == \E w \in sent : w[1] \in {"dpi", "rate", "led", "sector"} /\ w[2] = p

(* C8: a profile's is_dirty flag, once set, stays set until a commit that  *)
(* wrote that profile succeeds, and it is false after such a successful     *)
(* commit (every request acknowledged, nothing staged since commit() was    *)
(* called); a failed commit leaves it set. Stated for the flag of the       *)
(* shared record and for the flag the Profile object publishes.             *)
C8_DirtyUntilCommitted ==
    [][ \A p \in Profiles :
          LET replied == actorPc = "finish" /\ actorPc' # "finish"
              committed == replied /\ CommitResult(frame) = "Ok" /\ Wrote(p)
          IN /\ (info.profiles[p].is_dirty /\ ~committed)
                   => info'.profiles[p].is_dirty
             /\ (objProfile[p].is_dirty /\ ~committed)
                   => objProfile'[p].is_dirty
             /\ (committed /\ faults = 0 /\ cur = LastCall
                 /\ objProfile[p] = objAtCall.profile[p])
                   => (~info'.profiles[p].is_dirty /\ ~objProfile'[p].is_dirty)
      ]_vars

(* C9: whenever the device is idle at most one profile has is_active set,  *)
(* in the shared record and among the published Profile objects, after any  *)
(* sequence of load_profiles, IPC calls and commits.                        *)
C9_AtMostOneActiveWhenIdle ==
    Idle => /\ Cardinality(ActiveProfiles(info)) <= 1
            /\ Cardinality({ p \in Profiles : objProfile[p].is_active }) <= 1

(* A profile counts as dirty when either copy of its flag is set. *)
Dirty(p) == info.profiles[p].is_dirty \/ objProfile[p].is_dirty
RepairPending == drv.needs_eeprom_repair \/ frame.force_repair

(* C10: commit writes only profiles flagged dirty: with no repair pending, *)
(* none of a clean profile's settings is transmitted, and a commit with no  *)
(* dirty profile sends no configuration write at all.                       *)
C10_CommitWritesOnlyDirty ==
    (InCommit /\ ~RepairPending) =>
       /\ \A p \in Profiles : ~Dirty(p) => ~Wrote(p)
       /\ (\A p \in Profiles : ~Dirty(p))
             => \A w \in sent : w[1] \notin ConfigWrites

(* C11: when AsusDriver::commit returns, with Ok or with an error raised   *)
(* part-way, the device's hardware-selected profile is the one that was    *)
(* selected before the commit began (stated for a ready driver, whose       *)
(* commit is save_all_profiles).                                            *)
C11_SelectionRestored ==
    (asus.pc = "done" /\ asus.ready0) => asus.selected = asus.selected0

(* C12: whenever Hidpp20Driver::commit returns after entering the          *)
(* onboard-profile write path, the switch to onboard mode was issued       *)
(* after the sector writes, also when writes failed, and the device is     *)
(* back in onboard mode, never left in host mode.                          *)
C12_BackInOnboardMode ==
    (actorPc = "finish" /\ frame.onboard) =>
       /\ <<"mode", ONBOARD_MODE_ONBOARD>> \in sent
       /\ dev.mode = "onboard"

(* C13: DeviceIo::request always terminates. It returns Ok with the        *)
(* matcher's result at the first inbound buffer the matcher accepts; a     *)
(* call that accepts no buffer (and whose writes all succeed) makes        *)
(* max_attempts write-then-read attempts and returns the Timeout error     *)
(* whose attempts field is max_attempts.                                   *)
C13_Returns ==
    /\ (~IsNoise(io.buf) /\ MatcherOf(io.fn, io.buf).some) =>
          /\ io.pc = "done" /\ io.result = "Ok"
          /\ io.resp = MatcherOf(io.fn, io.buf)
    /\ io.result = "Ok" =>
          ~IsNoise(io.buf) /\ MatcherOf(io.fn, io.buf).some
    /\ (io.pc = "done" /\ io.result \notin {"Ok", "Io"}) =>
          /\ io.result = "Timeout"
          /\ io.writes = io.max_attempts
          /\ io.attempts = io.max_attempts
    /\ io.result = "Io" => io.failure.op # "none"

C14_NoiseSkipped ==
    ~ /\ io.pc \in {"attempt", "done"}
      /\ io.result # "Ok"
      /\ io.ended = "elapsed"
      /\ io.skipped >= 1 /\ ~io.rejected
      /\ io.next.buf.body = "reply"
      /\ io.next.in < io.remaining

(* C15: a transport failure during DeviceIo::request, a failed write or a  *)
(* failed read, aborts the request: no further attempt is written and the  *)
(* request returns that I/O error.                                         *)
C15_IoFailureAborts ==
    (io.pc # "none" /\ io.failure.op # "none") =>
       /\ io.writes = io.failure.writes
       /\ io.pc = "done" => io.result = "Io"

(* C16: when the device answers a feature request with a HID++ error       *)
(* report for its device index and feature index, feature_request returns  *)
(* an error carrying the report's code, and the request is not written     *)
(* again after the write that was answered.                                *)
C16_ErrorNotRetried ==
    (io.pc # "none" /\ io.fn = "feature_request"
       /\ ~IsNoise(io.buf) /\ io.buf.body = "error") =>
       /\ io.pc = "done"
       /\ feature_request(io) =
            [ ok |-> FALSE, err |-> "HidppErr", code |-> io.buf.code ]
       /\ io.writes = io.attempt

C16_Witness ==
    /\ io.pc = "done" /\ io.fn = "feature_request"
    /\ io.buf.body = "error" /\ io.buf.code = 5
    /\ io.writes = 1 /\ io.skipped >= 1

(* What DeviceAction::Add is about to do with the plugged-in device: the   *)
(* load of a freshly probed driver, for the failing requests f.            *)
LoadOf(f) == load_profiles(info, dev, Hidpp20Driver_new(dev.features), f)

SectorLoaded(p, f) == dev.features.onboard_profiles /\ p \notin f.sector_fail
DpiLoaded(f) == dev.features.adjustable_dpi /\ f.dpi_ok
RateLoaded(f) == dev.features.report_rate /\ f.rate_ok /\ dev.rate_ms > 0
LedLoaded(f) == dev.features.color_led_effects /\ f.led_ok

(* The fields of profile p in a loaded record, part by part. *)
PartsLoaded(loaded, p, f) ==
    LET was == info.profiles[p]
        got == loaded.profiles[p]
        sec == dev.sectors[p]
    IN /\ got.is_enabled = IF SectorLoaded(p, f) THEN TRUE ELSE was.is_enabled
       /\ \A r \in Resolutions :
            /\ got.resolutions[r].is_default =
                 IF SectorLoaded(p, f) THEN r = sec.default_idx
                 ELSE was.resolutions[r].is_default
            /\ got.resolutions[r].dpi =
                 IF DpiLoaded(f) /\ got.resolutions[r].is_active
                 THEN dev.sensor_dpi
                 ELSE IF SectorLoaded(p, f) THEN sec.dpi[r]
                      ELSE was.resolutions[r].dpi
       /\ got.report_rate =
            IF RateLoaded(f) THEN 1000 \div dev.rate_ms
            ELSE IF SectorLoaded(p, f) /\ sec.rate_ms > 0
                 THEN 1000 \div sec.rate_ms
                 ELSE was.report_rate
       /\ got.led = IF LedLoaded(f) THEN [ was.led EXCEPT !.mode = dev.led_mode ]
                    ELSE was.led

(* C17: a failure loading one part of the device state (a profile's        *)
(* sector, or the DPI, report-rate or LED query) does not abort            *)
(* load_profiles: it returns Ok, the parts that failed keep their          *)
(* pre-seeded defaults and the other parts are loaded.                     *)
C17_PartialLoadIsOk ==
    serverPc = "idle" =>
      \A f \in LoadFaults :
        (f.desc_ok /\ f.root_ok) =>
          /\ LoadOf(f).ok
          /\ \A p \in Profiles : PartsLoaded(LoadOf(f).info, p, f)

(* The device was added although the sector of the last profile and the    *)
(* DPI query failed: the actor runs, that profile has its defaults and     *)
(* profile 0 has the values of its sector.                                 *)
C17_Witness ==
    /\ serverPc = "added" /\ actorPc = "recv" /\ started = << >>
    /\ dev.features.onboard_profiles /\ dev.features.adjustable_dpi
    /\ dev.sensor_dpi # DefaultDpi
    /\ info.profiles[NumProfiles - 1].resolutions =
         DeviceInfo_from_entry.profiles[NumProfiles - 1].resolutions
    /\ \A r \in Resolutions :
         info.profiles[0].resolutions[r].dpi = dev.sectors[0].dpi[r]

(* C18: when the directory sector (sector 0) cannot be read or fails its   *)
(* CRC check, load_profiles does not fail: it reads profile i from sector  *)
(* i + 1 with every profile enabled, returns Ok and sets the repair flag.  *)
C18_DirectoryFallback ==
    (serverPc = "idle" /\ dev.features.onboard_profiles) =>
      \A f \in LoadFaults :
        (f.desc_ok /\ (~f.root_ok \/ ~dev.dir_crc_ok)) =>
          /\ LoadOf(f).ok
          /\ LoadOf(f).drv.needs_eeprom_repair
          /\ \A p \in Profiles : PartsLoaded(LoadOf(f).info, p, f)

(* C19: a CRC mismatch on a profile sector during load is not an error:    *)
(* load_profiles returns Ok, the profile is populated from the mismatching *)
(* data and needs_eeprom_repair is set.                                    *)
C19_SectorCrcMismatchIsOk ==
    (serverPc = "idle" /\ dev.features.onboard_profiles) =>
      \A f \in LoadFaults : \A p \in Profiles :
        (f.desc_ok /\ f.root_ok /\ p \notin f.sector_fail
           /\ ~dev.sectors[p].crc_ok) =>
          /\ LoadOf(f).ok
          /\ LoadOf(f).drv.needs_eeprom_repair
          /\ PartsLoaded(LoadOf(f).info, p, f)

(* The device was added with a profile sector whose CRC does not match     *)
(* and a valid directory: the actor runs, the profile has the sector's     *)
(* values and the driver has the repair flag.                              *)
C19_Witness ==
    /\ serverPc = "added" /\ actorPc = "recv" /\ started = << >>
    /\ dev.dir_crc_ok /\ ~dev.sectors[NumProfiles - 1].crc_ok
    /\ drv.needs_eeprom_repair
    /\ ~dev.features.adjustable_dpi
    /\ \A r \in Resolutions :
         info.profiles[NumProfiles - 1].resolutions[r].dpi =
           dev.sectors[NumProfiles - 1].dpi[r]

PreviousResult ==
    IF Len(started) >= 2 THEN drvResult[started[Len(started) - 1]] ELSE "none"

(* C21: needs_eeprom_repair is cleared by a commit in which every sector   *)
(* write succeeded; a commit in which a profile-sector or directory write  *)
(* failed returns an error and leaves the flag set, so the commit after it *)
(* again rewrites every profile.                                           *)
C21_RepairFlagFollowsWrites ==
    /\ (InCommit /\ frame.onboard /\ PreviousResult = "Err") =>
          /\ frame.force_repair
          /\ actorPc \in {"dir", "onboard", "finish"} =>
                \A p \in Profiles : <<"sector", p>> \in sent
    /\ (InCommit /\ frame.onboard /\ PreviousResult = "Ok") =>
          ~frame.force_repair
    /\ (Idle /\ started # << >> /\ drv.cached_onboard_info
          /\ drv.features.onboard_profiles) =>
          (drv.needs_eeprom_repair <=>
             drvResult[started[Len(started)]] = "Err")

(* A commit with a failed write was followed by a commit that rewrote      *)
(* every profile without an error, and the flag is clear.                  *)
C21_Witness ==
    /\ actorPc = "recv" /\ Len(started) = 2
    /\ drvResult[started[1]] = "Err" /\ drvResult[started[2]] = "Ok"
    /\ frame.force_repair /\ ~drv.needs_eeprom_repair
    /\ \A p \in Profiles : <<"sector", p>> \in sent

(* C22: a failed probe does not refuse registration: AsusDriver::probe     *)
(* returns Ok with the driver marked not ready when its handshake query    *)
(* fails; a commit that finds the driver not ready first reloads from the  *)
(* device, saving nothing, and marks the driver ready exactly when the     *)
(* reload succeeded.                                                       *)
C22_FailedProbeRetriedOnCommit ==
    asus.pc # "none" =>
      /\ asus.handshake = "failed" =>
            /\ asus.probe = "Ok" /\ asus.pc # "refused"
            /\ asus.pc = "load_profiles" => ~asus.is_ready
      /\ (asus.phase = "commit" /\ ~asus.ready0) =>
            /\ asus.pc \in {"call", "load", "load_restore", "done"}
            /\ asus.pc # "done" => ~asus.is_ready
            /\ asus.pc = "done" =>
                  /\ asus.result = "Err"
                  /\ asus.is_ready <=> asus.faults = 0
                  /\ asus.is_ready =>
                        asus.i = NumProfiles /\ asus.selected = asus.selected0

(* The handshake failed and so did load_profiles; the commit that followed *)
(* reloaded every profile and left the driver ready.                       *)
C22_Witness ==
    /\ asus.pc = "done" /\ asus.phase = "commit"
    /\ asus.handshake = "failed" /\ ~asus.ready0
    /\ asus.is_ready /\ asus.i = NumProfiles

(* C23: DeviceIo::request never hands the matcher an inbound buffer whose  *)
(* leading byte is neither 0x10 nor 0x11: the read that returns such a     *)
(* buffer only drops it, the matcher's verdicts are as before and the      *)
(* loop reads on.                                                          *)
C23_NoiseNeverMatched ==
    [][ (/\ io.pc = "read" /\ io'.pc \in {"read", "done"}
         /\ io.next.buf.lead \notin {HIDPP_SHORT_REPORT_ID,
                                      HIDPP_LONG_REPORT_ID})
        => /\ io'.pc = "read" /\ io'.result = "none"
           /\ io'.buf = io.next.buf
           /\ io'.skipped = io.skipped + 1
           /\ io'.rejected = io.rejected /\ io'.resp = io.resp ]_vars

(* Two input reports were dropped in one attempt and the matcher has not   *)
(* been asked about any buffer.                                            *)
C23_Witness ==
    /\ io.pc = "read" /\ io.skipped >= 2 /\ ~io.rejected
    /\ io.buf.lead \in InputReportIds /\ io.resp = NoResp

(* C24: within one attempt DeviceIo::request reads on until the matcher    *)
(* accepts a report or the 2000 ms deadline expires: a pause in inbound    *)
(* traffic does not end the attempt before its deadline.                   *)
C24_AttemptRunsToDeadline ==
    (io.pc \in {"attempt", "done"} /\ io.ended = "elapsed") =>
       io.remaining = 0

(* C25: every retry loop built on DeviceIo::request stops at an            *)
(* in-protocol HID++ error report: in try_probe_index and in the HID++ 1.0 *)
(* register helpers no write follows an error reply to the request.        *)
C25_ErrorStopsRetries ==
    (io.pc # "none" /\ io.fn \in ErrorIgnoringCallers /\ io.errorAt > 0
       /\ io.faults = 0) =>
       io.writes = io.errorAt

(* C26: in Hidpp20Driver::commit a sector write (profile sector or         *)
(* directory) is issued only after the device was switched to host mode    *)
(* in that commit: none is sent while the device is still in onboard mode. *)
C26_WritesOnlyInHostMode ==
    (/\ actorPc \in {"sector", "dir", "onboard"}
     /\ \E w \in sent : w[1] \in {"sector", "dir"})
    => dev.mode = "host"

(* C27: write_sector writes in whole attempts: an attempt sends the        *)
(* announcement, then the chunks in order, then the end marker; a failed   *)
(* step abandons it and the next attempt starts again at the announcement; *)
(* there are at most 3 attempts with a sleep of 15 ms times the attempt    *)
(* number between them; the call returns Ok at the first attempt that      *)
(* completes and the last error after the third failure.                   *)
IsPrefix(a, b) == Len(a) <= Len(b) /\ \A i \in 1 .. Len(a) : a[i] = b[i]

C27_WholeAttempts ==
    mem.pc # "none" =>
      /\ mem.attempt + 1 <= WRITE_RETRIES
      /\ IsPrefix(mem.log, WholeAttempt(mem.len))
      /\ mem.pc = "addr" => mem.log = <<>>
      /\ mem.pc \in {"chunk", "end"} =>
            /\ Len(mem.log) = 1 + mem.ci
            /\ Len(mem.errs) = mem.attempt
      /\ Len(mem.sleeps) = mem.attempt
      /\ \A k \in 1 .. Len(mem.sleeps) : mem.sleeps[k] = 15 * k
      /\ \A k \in 1 .. Len(mem.errs) : mem.errs[k][1] = k
      /\ (mem.pc = "done" /\ mem.result = "Ok") =>
            /\ mem.log = WholeAttempt(mem.len)
            /\ Len(mem.errs) = mem.attempt
      /\ (mem.pc = "done" /\ mem.result = "Err") =>
            /\ Len(mem.errs) = 3
            /\ mem.errs[3][2] = mem.log[Len(mem.log)][1]
      /\ mem.pc = "sleep" => Len(mem.errs) = mem.attempt + 1

(* Two attempts were abandoned, one of them at a chunk, and the third      *)
(* wrote a sector of more than one chunk.                                  *)
C27_Witness ==
    /\ mem.pc = "done" /\ mem.result = "Ok" /\ mem.attempt = 2
    /\ mem.len > ChunkSize
    /\ mem.errs[1][2] = "MEMORY_WRITE"
    /\ mem.sleeps = <<15, 30>>

(* C28: read_sector for a range ending exactly at the sector size S        *)
(* returns the bytes of the requested range, in order and of the requested *)
(* length, and no read request covers a byte past S.                       *)
RequestedRange(c) == [ i \in 1 .. c.size |-> c.read_offset + i - 1 ]

C28_TailRewind ==
    (mem.pc # "none" /\ mem.fn = "read_sector"
       /\ mem.end_offset = mem.sector_size) =>
      /\ \A k \in 1 .. Len(mem.reads) :
            mem.reads[k] + 16 <= mem.sector_size
      /\ (mem.pc = "done" /\ mem.result = "Ok") =>
            mem.data = RequestedRange(mem)

(* C29: a sector whose last two bytes hold the CRC-CCITT of its payload,   *)
(* big-endian, as commit stores it, passes verify_sector_crc, and no       *)
(* longer passes it once any single bit of the payload has been flipped.   *)
C29_CrcRoundTrip ==
    (mem.pc = "verified" /\ mem.fn = "verify_sector_crc") =>
       (mem.verified <=> mem.flipped = -1)

(* A two-byte payload with a bit of its second byte flipped was rejected. *)
C29_Witness ==
    /\ mem.pc = "verified" /\ mem.fn = "verify_sector_crc"
    /\ Len(mem.sector) = 4 /\ mem.flipped >= 8 /\ mem.verified = FALSE

(* C30: for every logical button n in 1..16, the binding encoded by        *)
(* from_action(Button, n) is decoded by load_profiles (1 + position of the *)
(* lowest set bit of the big-endian mask) as button n again.               *)
C30_ButtonRoundTrip ==
    (/\ mem.pc = "loaded" /\ mem.fn = "button"
     /\ mem.action_type = "Button" /\ mem.mapping_value \in 1 .. 16)
    => /\ mem.loaded_value = mem.mapping_value
       /\ mem.loaded_action = "Button"

(* Button 16, stored as the mask bytes 0x80 0x00, came back as 16. *)
C30_Witness ==
    /\ mem.pc = "loaded" /\ mem.fn = "button"
    /\ mem.action_type = "Button" /\ mem.mapping_value = 16
    /\ mem.bytes = << "HID", "MOUSE", 128, 0 >>
    /\ mem.loaded_value = 16

(* C31: for every page of the capability table a root-feature reply that   *)
(* carries index 0 leaves the capability None in the FeatureMap, and 0 is  *)
(* never stored as a feature's run-time index.                             *)
C31_ZeroIsUnsupported ==
    (mem.pc # "none" /\ mem.fn = "discover_features") =>
      /\ \A f \in DOMAIN mem.features : mem.features[f] # 0
      /\ \A f \in mem.zeroed : mem.features[f] = -1

(* Discovery ended with index 0 answered for onboard profiles and for the  *)
(* report rate and a real index for adjustable DPI.                        *)
C31_Witness ==
    /\ mem.pc = "done" /\ mem.fn = "discover_features"
    /\ mem.zeroed = {"onboard_profiles", "report_rate"}
    /\ mem.features["onboard_profiles"] = -1
    /\ mem.features["adjustable_dpi"] = 1

(* C32: HidppReport::parse dispatches on the first byte: at least 7 bytes  *)
(* starting with 0x10 give Short, at least 20 bytes starting with 0x11     *)
(* give Long, with the fields at their fixed offsets; every other buffer   *)
(* gives None; and a frame built by build_short_report or                  *)
(* build_hidpp20_request parses back to the same device index, sub-id and  *)
(* parameters.                                                             *)
PadTo16(params) ==
    [ i \in 1 .. 16 |-> IF i <= Len(params) THEN params[i] ELSE 0 ]

C32_ParseDispatch ==
    (mem.pc = "parsed" /\ mem.fn = "parse") =>
      LET b == mem.buf
          r == mem.report
      IN /\ (Len(b) >= 7 /\ b[1] = 16) =>
               /\ r.kind = "Short" /\ r.device_index = b[2] /\ r.sub_id = b[3]
               /\ r.params = << b[4], b[5], b[6] >>
         /\ (Len(b) >= 20 /\ b[1] = 17) =>
               /\ r.kind = "Long" /\ r.device_index = b[2] /\ r.sub_id = b[3]
               /\ r.address = b[4]
               /\ r.params = [ i \in 1 .. 16 |-> b[4 + i] ]
         /\ ~(Len(b) >= 7 /\ b[1] = 16) /\ ~(Len(b) >= 20 /\ b[1] = 17)
               => r.kind = "None"
         /\ mem.origin = "short" =>
               /\ r.kind = "Short" /\ r.device_index = mem.args[1]
               /\ r.sub_id = mem.args[2] /\ r.params = mem.args[3]
         /\ mem.origin = "long" =>
               /\ r.kind = "Long" /\ r.device_index = mem.args[1]
               /\ r.sub_id = mem.args[2] /\ r.params = PadTo16(mem.args[5])

(* A built short request with sub-id 0x8F and parameters that differ from  *)
(* each other was parsed back.                                             *)
C32_Witness ==
    /\ mem.pc = "parsed" /\ mem.fn = "parse" /\ mem.origin = "short"
    /\ mem.args[2] = 143 /\ mem.report.kind = "Short"
    /\ mem.report.params = << 143, 146, 149 >>

C34_OkMeansAllWritesAcked ==
    (/\ actorPc = "finish" /\ Len(started) = 1
     /\ ~ \E w \in sent : w[1] = "sector"
     /\ CommitResult(frame) = "Ok")
    => faults = 0

(* C35: after commits that each returned Ok the device's report rate is    *)
(* the report_rate of the active profile that was committed, and the       *)
(* cached rate that write_report_rate compares with equals the rate the    *)
(* device has. Stated for runs in which no request of a commit failed.     *)
C35_CachedRateIsDeviceRate ==
    LET a == FindActive(infoAtCommit)
    IN (/\ Idle /\ started # << >> /\ faults = 0
        /\ \A id \in Range(started) : drvResult[id] = "Ok"
        /\ drv.features.report_rate
        /\ a # -1 /\ infoAtCommit.profiles[a].report_rate > 0)
       => /\ dev.rate_ms = AsU8(1000 \div infoAtCommit.profiles[a].report_rate)
          /\ drv.cached_report_rate_hz = 1000 \div dev.rate_ms

(* C36: for Key, Special and Macro bindings a mapping value below 65536    *)
(* encoded by from_action and decoded as load_profiles does comes back     *)
(* with the same action kind and the same mapping value.                   *)
C36_KeyRoundTrip ==
    (/\ mem.pc = "loaded" /\ mem.fn = "button"
     /\ mem.action_type \in {"Key", "Special", "Macro"}
     /\ mem.mapping_value < 65536)
    => /\ mem.loaded_action = mem.action_type
       /\ mem.loaded_value = mem.mapping_value

(* C37: Hidpp20Driver::commit writes each profile to the EEPROM sector     *)
(* that load_profiles read it from, for every directory that load_profiles *)
(* accepts as valid.                                                       *)
C37_WritesWhereItRead ==
    (mem.pc # "none" /\ mem.fn = "directory" /\ mem.root_crc_ok) =>
       \A i \in Profiles :
          (mem.wroteTo[i] # 0 /\ mem.readFrom[i] # 0)
             => mem.wroteTo[i] = mem.readFrom[i]

(* C38: the reply feature_request returns is a reply to that very request: *)
(* a report for the same device index and feature index that answers a     *)
(* request with another function selector or software id is not returned.  *)
C38_ReplyIsForThisRequest ==
    (mem.pc = "matched" /\ mem.fn = "feature_request" /\ mem.resp.some) =>
       /\ mem.earlier.function = mem.args.function
       /\ mem.earlier.sw_id = mem.args.sw_id

====
